---- MODULE Spec2Model ----
(***************************************************************************)
(* Coffee machine core: two bounded resource containers (WaterTank,        *)
(* BeanContainer), the brew / cleaning policies and the orchestrating      *)
(* SimpleCoffeeMachine.  Exceptions are modelled as the value an operation *)
(* "returns" (the exception's class name); an operation that raises keeps  *)
(* every assignment it made before the raise.                              *)
(***************************************************************************)
EXTENDS Integers, FiniteSets, Sequences, TLC

VARIABLES
    water_tank,          \* WaterTank: [maximum_level, current_level]
    bean_container,      \* BeanContainer: [maximum_grams, current_grams]
    brew_policy,         \* DefaultBrewPolicy: [clean_threshold, allow_recipe_with_no_requirements]
    cleaning_policy,     \* DefaultCleaningPolicy: [schedule_threshold, immediate_threshold, max_time_between_cleans]
    refill_policy,       \* SimpleCoffeeMachine.refill_policy: the class of the injected object
    state,               \* SimpleCoffeeMachine.state
    active_recipe,       \* SimpleCoffeeMachine.active_recipe
    dirty_count,         \* SimpleCoffeeMachine.dirty_count
    last_cleaned_ts,     \* SimpleCoffeeMachine.last_cleaned_ts
    cleaning_scheduled,  \* SimpleCoffeeMachine.cleaning_scheduled
    now,                 \* the clock read by datetime.utcnow()
    op,                  \* the operation called last
    arg,                 \* its argument(s)
    result,              \* what it returned, or the exception it raised
    before,              \* the container's level when consume / refill was called on it
    callers,             \* the callers of brew(): where each is in brew() and its locals
    mutex                \* the caller inside the mutual-exclusion section, if any

vars == <<water_tank, bean_container, brew_policy, cleaning_policy, refill_policy,
          state, active_recipe, dirty_count, last_cleaned_ts, cleaning_scheduled,
          now, op, arg, result, before, callers, mutex>>

machine_vars == <<state, active_recipe, dirty_count, last_cleaned_ts,
                  cleaning_scheduled>>

policy_vars == <<brew_policy, cleaning_policy, refill_policy>>

caller_vars == <<callers, mutex>>

-----------------------------------------------------------------------------
(* Bounds *)

MaxLevel == 2        \* largest container capacity
MaxAmount == 2       \* largest amount passed to consume / refill
MaxRecipe == 2       \* largest water_ml / beans_g of a recipe
MaxThreshold == 2    \* largest clean / schedule / immediate threshold
MaxDirty == 3        \* brew() is not called any more once dirty_count reaches it
MaxTime == 1         \* the clock stops here
MaxName == 2         \* longest recipe name passed to CoffeeRecipe
MaxCallers == 2      \* callers of brew() on one machine

\* amounts passed to the containers' consume / refill
Amounts == -1..MaxAmount

\* amounts passed to the machine's refill_water / refill_beans
RefillAmounts == 0..MaxAmount

\* Python's None for an Optional[int]-like value
None == -1

-----------------------------------------------------------------------------
(* WaterTank *)

\* WaterTank.__init__ with arguments that pass its three checks
WaterTanks ==
    { t \in [maximum_level : -1..MaxLevel, current_level : -1..MaxLevel] :
        /\ ~(t.maximum_level <= 0)
        /\ ~(t.current_level < 0)
        /\ ~(t.current_level > t.maximum_level) }

\* what a constructor that raised leaves behind: no tank
NoTank == [maximum_level |-> None, current_level |-> None]

\* WaterTank.__init__ also refusing a tank that starts full
WaterTank_init_not_full(maximum_level, initial_level) ==
    IF maximum_level <= 0
    THEN [obj |-> NoTank, result |-> "InvalidWaterTankConfigError"]
    ELSE IF initial_level < 0
    THEN [obj |-> NoTank, result |-> "InvalidWaterTankConfigError"]
    ELSE IF initial_level >= maximum_level
    THEN [obj |-> NoTank, result |-> "InvalidWaterTankConfigError"]
    ELSE [obj |-> [maximum_level |-> maximum_level, current_level |-> initial_level],
          result |-> "None"]

WaterTank_init(maximum_level, initial_level) ==
    IF maximum_level <= 0
    THEN [obj |-> NoTank, result |-> "InvalidWaterTankConfigError"]
    ELSE IF initial_level < 0
    THEN [obj |-> NoTank, result |-> "InvalidWaterTankConfigError"]
    ELSE IF initial_level > maximum_level
    THEN [obj |-> NoTank, result |-> "InvalidWaterTankConfigError"]
    ELSE [obj |-> [maximum_level |-> maximum_level, current_level |-> initial_level],
          result |-> "None"]

\* consume_water without its use_level <= 0 check
consume_water_unguarded(tank, use_level) ==
    IF tank.current_level - use_level >= 0
    THEN [obj |-> [tank EXCEPT !.current_level = @ - use_level], result |-> "None"]
    ELSE [obj |-> tank, result |-> "NotEnoughWaterError"]

consume_water(tank, use_level) ==
    IF use_level <= 0
    THEN [obj |-> tank, result |-> "InvalidWaterOperationError"]
    ELSE IF tank.current_level - use_level >= 0
         THEN [obj |-> [tank EXCEPT !.current_level = @ - use_level], result |-> "None"]
         ELSE [obj |-> tank, result |-> "NotEnoughWaterError"]

\* WaterTank.refill that forgets to cap
WaterTank_refill_uncapped(tank, refill_level) ==
    IF refill_level <= 0
    THEN [obj |-> tank, result |-> "InvalidWaterOperationError"]
    ELSE LET new_level == tank.current_level + refill_level
         IN IF new_level >= tank.maximum_level
            THEN [obj |-> [tank EXCEPT !.current_level = new_level], result |-> "NOW_FULL"]
            ELSE [obj |-> [tank EXCEPT !.current_level = @ + refill_level],
                  result |-> "STILL_NOT_FULL"]

\* refill refusing an amount that does not fit instead of capping it
WaterTank_refill_refusing(tank, refill_level) ==
    IF refill_level <= 0
    THEN [obj |-> tank, result |-> "InvalidWaterOperationError"]
    ELSE LET new_level == tank.current_level + refill_level
         IN IF new_level > tank.maximum_level
            THEN [obj |-> tank, result |-> "STILL_NOT_FULL"]
            ELSE IF new_level = tank.maximum_level
            THEN [obj |-> [tank EXCEPT !.current_level = tank.maximum_level],
                  result |-> "NOW_FULL"]
            ELSE [obj |-> [tank EXCEPT !.current_level = @ + refill_level],
                  result |-> "STILL_NOT_FULL"]

\* WaterTank.refill reporting NOW_FULL only when water was cut off
WaterTank_refill_gt(tank, refill_level) ==
    IF refill_level <= 0
    THEN [obj |-> tank, result |-> "InvalidWaterOperationError"]
    ELSE LET new_level == tank.current_level + refill_level
         IN IF new_level > tank.maximum_level
            THEN [obj |-> [tank EXCEPT !.current_level = tank.maximum_level],
                  result |-> "NOW_FULL"]
            ELSE [obj |-> [tank EXCEPT !.current_level = @ + refill_level],
                  result |-> "STILL_NOT_FULL"]

WaterTank_refill(tank, refill_level) ==
    IF refill_level <= 0
    THEN [obj |-> tank, result |-> "InvalidWaterOperationError"]
    ELSE LET new_level == tank.current_level + refill_level
         IN IF new_level >= tank.maximum_level
            THEN [obj |-> [tank EXCEPT !.current_level = tank.maximum_level],
                  result |-> "NOW_FULL"]
            ELSE [obj |-> [tank EXCEPT !.current_level = @ + refill_level],
                  result |-> "STILL_NOT_FULL"]

WaterTank_missing_capacity(tank) == tank.maximum_level - tank.current_level

WaterTank_is_empty(tank) == tank.current_level = 0

WaterTank_is_full(tank) == tank.current_level = tank.maximum_level

-----------------------------------------------------------------------------
(* BeanContainer *)

BeanContainers ==
    { b \in [maximum_grams : -1..MaxLevel, current_grams : -1..MaxLevel] :
        /\ ~(b.maximum_grams <= 0)
        /\ ~(b.current_grams < 0)
        /\ ~(b.current_grams > b.maximum_grams) }

\* what a constructor that raised leaves behind: no container
NoBox == [maximum_grams |-> None, current_grams |-> None]

BeanContainer_init(maximum_grams, initial_grams) ==
    IF maximum_grams <= 0
    THEN [obj |-> NoBox, result |-> "InvalidBeanContainerConfigError"]
    ELSE IF initial_grams < 0
    THEN [obj |-> NoBox, result |-> "InvalidBeanContainerConfigError"]
    ELSE IF initial_grams > maximum_grams
    THEN [obj |-> NoBox, result |-> "InvalidBeanContainerConfigError"]
    ELSE [obj |-> [maximum_grams |-> maximum_grams, current_grams |-> initial_grams],
          result |-> "None"]

\* consume_beans that refuses to take the last gram
consume_beans_strict(box, amount_grams) ==
    IF amount_grams <= 0
    THEN [obj |-> box, result |-> "InvalidBeanOperationError"]
    ELSE IF box.current_grams - amount_grams > 0
         THEN [obj |-> [box EXCEPT !.current_grams = @ - amount_grams], result |-> "None"]
         ELSE [obj |-> box, result |-> "NotEnoughBeansError"]

consume_beans(box, amount_grams) ==
    IF amount_grams <= 0
    THEN [obj |-> box, result |-> "InvalidBeanOperationError"]
    ELSE IF box.current_grams - amount_grams >= 0
         THEN [obj |-> [box EXCEPT !.current_grams = @ - amount_grams], result |-> "None"]
         ELSE [obj |-> box, result |-> "NotEnoughBeansError"]

\* BeanContainer.refill comparing with > instead of >=
BeanContainer_refill_gt(box, refill_grams) ==
    IF refill_grams <= 0
    THEN [obj |-> box, result |-> "InvalidBeanOperationError"]
    ELSE LET new_level == box.current_grams + refill_grams
         IN IF new_level > box.maximum_grams
            THEN [obj |-> [box EXCEPT !.current_grams = box.maximum_grams],
                  result |-> "NOW_FULL"]
            ELSE [obj |-> [box EXCEPT !.current_grams = new_level],
                  result |-> "STILL_NOT_FULL"]

\* BeanContainer.refill comparing with == instead of >=
BeanContainer_refill_eq(box, refill_grams) ==
    IF refill_grams <= 0
    THEN [obj |-> box, result |-> "InvalidBeanOperationError"]
    ELSE LET new_level == box.current_grams + refill_grams
         IN IF new_level = box.maximum_grams
            THEN [obj |-> [box EXCEPT !.current_grams = box.maximum_grams],
                  result |-> "NOW_FULL"]
            ELSE [obj |-> [box EXCEPT !.current_grams = new_level],
                  result |-> "STILL_NOT_FULL"]

BeanContainer_refill(box, refill_grams) ==
    IF refill_grams <= 0
    THEN [obj |-> box, result |-> "InvalidBeanOperationError"]
    ELSE LET new_level == box.current_grams + refill_grams
         IN IF new_level >= box.maximum_grams
            THEN [obj |-> [box EXCEPT !.current_grams = box.maximum_grams],
                  result |-> "NOW_FULL"]
            ELSE [obj |-> [box EXCEPT !.current_grams = new_level],
                  result |-> "STILL_NOT_FULL"]

BeanContainer_missing_capacity(box) == box.maximum_grams - box.current_grams

BeanContainer_is_empty(box) == box.current_grams = 0

BeanContainer_is_full(box) == box.current_grams = box.maximum_grams

-----------------------------------------------------------------------------
(* CoffeeRecipe: the two fields the machine and the brew policy read *)

Recipes == [water_ml : 0..MaxRecipe, beans_g : 0..MaxRecipe]

\* active_recipe before any select_recipe (Python's None)
NoRecipe == [water_ml |-> None, beans_g |-> None]

requires_water(recipe) == recipe.water_ml > 0

requires_beans(recipe) == recipe.beans_g > 0

MAX_WATER_ML == 2000

MAX_BEANS_G == 500

CoffeeRecipeGrindLevel == {"FINE", "MEDIUM", "COARSE"}

\* a Python value passed to the constructor: its class and its content; a str
\* is the sequence of its characters
PyValue(type, value) == [type |-> type, value |-> value]

\* isinstance(v, int): bool is a subclass of int
isinstance_int(v) == v.type \in {"int", "bool"}

Whitespace == {" "}

RECURSIVE str_lstrip(_)
str_lstrip(s) ==
    IF Len(s) > 0 /\ Head(s) \in Whitespace THEN str_lstrip(Tail(s)) ELSE s

RECURSIVE str_rstrip(_)
str_rstrip(s) ==
    IF Len(s) > 0 /\ s[Len(s)] \in Whitespace
    THEN str_rstrip(SubSeq(s, 1, Len(s) - 1))
    ELSE s

\* str.strip()
str_strip(s) == str_rstrip(str_lstrip(s))

\* the exception __post_init__ raises; src/errors.py defines the six errors of
\* the containers and not this one, which is taken to be one more subclass of
\* CoffeeMachineError
InvalidRecipeError == "InvalidRecipeError"

\* __post_init__ taking MAX_WATER_ML itself for too much
CoffeeRecipe_post_init_below_max(name, water_ml, beans_g, grind) ==
    LET raised == [obj |-> NoRecipe, result |-> InvalidRecipeError]
    IN IF ~(name.type = "str") \/ Len(str_strip(name.value)) = 0
       THEN raised
       ELSE IF ~isinstance_int(water_ml)
       THEN raised
       ELSE IF water_ml.value < 0 \/ water_ml.value >= MAX_WATER_ML
       THEN raised
       ELSE IF ~isinstance_int(beans_g)
       THEN raised
       ELSE IF beans_g.value < 0 \/ beans_g.value > MAX_BEANS_G
       THEN raised
       ELSE IF ~(grind.type = "NoneType") /\ ~(grind.type = "CoffeeRecipeGrindLevel")
       THEN raised
       ELSE [obj |-> [water_ml |-> water_ml.value, beans_g |-> beans_g.value],
             result |-> "None"]

\* CoffeeRecipe(name, water_ml, beans_g, grind): the dataclass stores the
\* fields and __post_init__ validates them
CoffeeRecipe_post_init(name, water_ml, beans_g, grind) ==
    LET raised == [obj |-> NoRecipe, result |-> InvalidRecipeError]
    IN IF ~(name.type = "str") \/ Len(str_strip(name.value)) = 0
       THEN raised
       ELSE IF ~isinstance_int(water_ml)
       THEN raised
       ELSE IF water_ml.value < 0 \/ water_ml.value > MAX_WATER_ML
       THEN raised
       ELSE IF ~isinstance_int(beans_g)
       THEN raised
       ELSE IF beans_g.value < 0 \/ beans_g.value > MAX_BEANS_G
       THEN raised
       ELSE IF ~(grind.type = "NoneType") /\ ~(grind.type = "CoffeeRecipeGrindLevel")
       THEN raised
       ELSE [obj |-> [water_ml |-> water_ml.value, beans_g |-> beans_g.value],
             result |-> "None"]

-----------------------------------------------------------------------------
(* DefaultBrewPolicy *)

BrewDecision ==
    {"OK", "OUT_OF_WATER", "OUT_OF_BEANS", "RECIPE_FORBIDDEN", "NEEDS_CLEANING", "ERROR"}

\* DefaultBrewPolicy.__init__ with arguments that pass its check
BrewPolicies ==
    { p \in [clean_threshold : -1..MaxThreshold,
             allow_recipe_with_no_requirements : BOOLEAN] :
        ~(p.clean_threshold < 0) }

\* a Python dict as a function; {} is the function with the empty domain
EmptyDict == [k \in {} |-> 0]

dict_get(d, key, default) == IF key \in DOMAIN d THEN d[key] ELSE default

\* can_brew comparing the water level with <= instead of <
can_brew_water_le(policy, recipe, water_available_ml, beans_available_g, maintenance_state) ==
    LET dirty_count_ == dict_get(maintenance_state, "dirty_count", 0)
    IN IF ~requires_water(recipe) /\ ~requires_beans(recipe)
       THEN (IF policy.allow_recipe_with_no_requirements THEN "OK" ELSE "RECIPE_FORBIDDEN")
       ELSE IF requires_water(recipe) /\ water_available_ml <= recipe.water_ml
       THEN "OUT_OF_WATER"
       ELSE IF requires_beans(recipe) /\ beans_available_g < recipe.beans_g
       THEN "OUT_OF_BEANS"
       ELSE IF dirty_count_ >= policy.clean_threshold
       THEN "NEEDS_CLEANING"
       ELSE "OK"

\* can_brew checking the beans before the water
can_brew_beans_first(policy, recipe, water_available_ml, beans_available_g, maintenance_state) ==
    LET dirty_count_ == dict_get(maintenance_state, "dirty_count", 0)
    IN IF ~requires_water(recipe) /\ ~requires_beans(recipe)
       THEN (IF policy.allow_recipe_with_no_requirements THEN "OK" ELSE "RECIPE_FORBIDDEN")
       ELSE IF requires_beans(recipe) /\ beans_available_g < recipe.beans_g
       THEN "OUT_OF_BEANS"
       ELSE IF requires_water(recipe) /\ water_available_ml < recipe.water_ml
       THEN "OUT_OF_WATER"
       ELSE IF dirty_count_ >= policy.clean_threshold
       THEN "NEEDS_CLEANING"
       ELSE "OK"

\* can_brew checking the dirty counter before the recipe's requirements
can_brew_cleaning_first(policy, recipe, water_available_ml, beans_available_g, maintenance_state) ==
    LET dirty_count_ == dict_get(maintenance_state, "dirty_count", 0)
    IN IF dirty_count_ >= policy.clean_threshold
       THEN "NEEDS_CLEANING"
       ELSE IF ~requires_water(recipe) /\ ~requires_beans(recipe)
       THEN (IF policy.allow_recipe_with_no_requirements THEN "OK" ELSE "RECIPE_FORBIDDEN")
       ELSE IF requires_water(recipe) /\ water_available_ml < recipe.water_ml
       THEN "OUT_OF_WATER"
       ELSE IF requires_beans(recipe) /\ beans_available_g < recipe.beans_g
       THEN "OUT_OF_BEANS"
       ELSE "OK"

\* can_brew without the check of the beans
can_brew_beans_unchecked(policy, recipe, water_available_ml, beans_available_g, maintenance_state) ==
    LET dirty_count_ == dict_get(maintenance_state, "dirty_count", 0)
    IN IF ~requires_water(recipe) /\ ~requires_beans(recipe)
       THEN (IF policy.allow_recipe_with_no_requirements THEN "OK" ELSE "RECIPE_FORBIDDEN")
       ELSE IF requires_water(recipe) /\ water_available_ml < recipe.water_ml
       THEN "OUT_OF_WATER"
       ELSE IF dirty_count_ >= policy.clean_threshold
       THEN "NEEDS_CLEANING"
       ELSE "OK"

\* can_brew letting one more brew through: dirty_count > clean_threshold
can_brew_dirty_gt(policy, recipe, water_available_ml, beans_available_g, maintenance_state) ==
    LET dirty_count_ == dict_get(maintenance_state, "dirty_count", 0)
    IN IF ~requires_water(recipe) /\ ~requires_beans(recipe)
       THEN (IF policy.allow_recipe_with_no_requirements THEN "OK" ELSE "RECIPE_FORBIDDEN")
       ELSE IF requires_water(recipe) /\ water_available_ml < recipe.water_ml
       THEN "OUT_OF_WATER"
       ELSE IF requires_beans(recipe) /\ beans_available_g < recipe.beans_g
       THEN "OUT_OF_BEANS"
       ELSE IF dirty_count_ > policy.clean_threshold
       THEN "NEEDS_CLEANING"
       ELSE "OK"

\* can_brew without the cleaning check
can_brew_dirty_unchecked(policy, recipe, water_available_ml, beans_available_g, maintenance_state) ==
    IF ~requires_water(recipe) /\ ~requires_beans(recipe)
    THEN (IF policy.allow_recipe_with_no_requirements THEN "OK" ELSE "RECIPE_FORBIDDEN")
    ELSE IF requires_water(recipe) /\ water_available_ml < recipe.water_ml
    THEN "OUT_OF_WATER"
    ELSE IF requires_beans(recipe) /\ beans_available_g < recipe.beans_g
    THEN "OUT_OF_BEANS"
    ELSE "OK"

can_brew(policy, recipe, water_available_ml, beans_available_g, maintenance_state) ==
    LET dirty_count_ == dict_get(maintenance_state, "dirty_count", 0)
    IN IF ~requires_water(recipe) /\ ~requires_beans(recipe)
       THEN (IF policy.allow_recipe_with_no_requirements THEN "OK" ELSE "RECIPE_FORBIDDEN")
       ELSE IF requires_water(recipe) /\ water_available_ml < recipe.water_ml
       THEN "OUT_OF_WATER"
       ELSE IF requires_beans(recipe) /\ beans_available_g < recipe.beans_g
       THEN "OUT_OF_BEANS"
       ELSE IF dirty_count_ >= policy.clean_threshold
       THEN "NEEDS_CLEANING"
       ELSE "OK"

-----------------------------------------------------------------------------
(* DefaultCleaningPolicy *)

CleaningAction == {"NO_ACTION", "SCHEDULE", "IMMEDIATE"}

\* DefaultCleaningPolicy.__init__ with arguments that pass its check
CleaningPolicies ==
    { p \in [schedule_threshold : -1..MaxThreshold,
             immediate_threshold : -1..MaxThreshold,
             max_time_between_cleans : {None} \cup 1..MaxTime] :
        0 <= p.schedule_threshold /\ p.schedule_threshold <= p.immediate_threshold }

\* evaluate() still answering NO_ACTION when the count equals schedule_threshold
evaluate_schedule_gt(policy, dirty_count_, last_cleaned_ts_, utcnow) ==
    IF /\ policy.max_time_between_cleans # None
       /\ last_cleaned_ts_ # None
       /\ utcnow - last_cleaned_ts_ >= policy.max_time_between_cleans
    THEN "IMMEDIATE"
    ELSE IF dirty_count_ <= policy.schedule_threshold
    THEN "NO_ACTION"
    ELSE IF dirty_count_ < policy.immediate_threshold
    THEN "SCHEDULE"
    ELSE "IMMEDIATE"

\* evaluate() still answering SCHEDULE when the count equals immediate_threshold
evaluate_immediate_gt(policy, dirty_count_, last_cleaned_ts_, utcnow) ==
    IF /\ policy.max_time_between_cleans # None
       /\ last_cleaned_ts_ # None
       /\ utcnow - last_cleaned_ts_ >= policy.max_time_between_cleans
    THEN "IMMEDIATE"
    ELSE IF dirty_count_ < policy.schedule_threshold
    THEN "NO_ACTION"
    ELSE IF dirty_count_ <= policy.immediate_threshold
    THEN "SCHEDULE"
    ELSE "IMMEDIATE"

\* evaluate() whose time rule needs more than max_time_between_cleans to have passed
evaluate_time_gt(policy, dirty_count_, last_cleaned_ts_, utcnow) ==
    IF /\ policy.max_time_between_cleans # None
       /\ last_cleaned_ts_ # None
       /\ utcnow - last_cleaned_ts_ > policy.max_time_between_cleans
    THEN "IMMEDIATE"
    ELSE IF dirty_count_ < policy.schedule_threshold
    THEN "NO_ACTION"
    ELSE IF dirty_count_ < policy.immediate_threshold
    THEN "SCHEDULE"
    ELSE "IMMEDIATE"

\* utcnow is the value datetime.utcnow() returns inside the call
evaluate(policy, dirty_count_, last_cleaned_ts_, utcnow) ==
    IF /\ policy.max_time_between_cleans # None
       /\ last_cleaned_ts_ # None
       /\ utcnow - last_cleaned_ts_ >= policy.max_time_between_cleans
    THEN "IMMEDIATE"
    ELSE IF dirty_count_ < policy.schedule_threshold
    THEN "NO_ACTION"
    ELSE IF dirty_count_ < policy.immediate_threshold
    THEN "SCHEDULE"
    ELSE "IMMEDIATE"

-----------------------------------------------------------------------------
(* SimpleCoffeeMachine *)

\* the callers that may be inside brew() on one machine
Callers == 1..MaxCallers

\* the mutual-exclusion section with no caller inside
Free == 0

\* a caller outside brew(): no decision taken, nothing returned, and no
\* record of the levels and the counter it found on entry
IdleCaller ==
    [pc |-> "idle", decision |-> "None", returned |-> "None",
     entry |-> [water |-> None, beans |-> None, dirty_count |-> None]]

\* the refill policy classes an object passed to __init__ can have
RefillPolicies == {"CapRefillPolicy", "StrictRefillPolicy"}

MachineStates ==
    {"IDLE", "OUT_OF_WATER", "OUT_OF_BEANS", "RECIPE_FORBIDDEN", "NEEDS_CLEANING", "ERROR"}

select_recipe(recipe) ==
    /\ op' = "select_recipe" /\ arg' = recipe /\ result' = "None"
    /\ active_recipe' = recipe
    /\ UNCHANGED <<water_tank, bean_container, policy_vars, caller_vars, state, dirty_count,
                   last_cleaned_ts, cleaning_scheduled, now, before>>

\* brew() with no active recipe recording the failure in state
brew_no_recipe_sets_error ==
    /\ result' = "RuntimeError"
    /\ state' = "ERROR"
    /\ UNCHANGED <<water_tank, bean_container, active_recipe, dirty_count,
                   last_cleaned_ts, cleaning_scheduled>>

\* brew() with no active recipe: the RuntimeError leaves the machine as it was
brew_no_recipe ==
    /\ result' = "RuntimeError"
    /\ UNCHANGED <<water_tank, bean_container, machine_vars>>

\* the rejected branch of brew() also counting the attempt as a brew
brew_rejected_counted(decision) ==
    /\ state' = decision
    /\ result' = decision
    /\ dirty_count' = dirty_count + 1
    /\ UNCHANGED <<water_tank, bean_container, active_recipe,
                   last_cleaned_ts, cleaning_scheduled>>

\* brew() when the policy's decision is not OK
brew_rejected(decision) ==
    /\ state' = decision
    /\ result' = decision
    /\ UNCHANGED <<water_tank, bean_container, active_recipe, dirty_count,
                   last_cleaned_ts, cleaning_scheduled>>

\* the two consumptions of brew() written as if / elif
brew_consume_elif(tank, box, recipe) ==
    IF requires_water(recipe)
    THEN LET w == consume_water(tank, recipe.water_ml)
         IN [water |-> w.obj, beans |-> box, result |-> w.result]
    ELSE IF requires_beans(recipe)
    THEN LET b == consume_beans(box, recipe.beans_g)
         IN [water |-> tank, beans |-> b.obj, result |-> b.result]
    ELSE [water |-> tank, beans |-> box, result |-> "None"]

\* the two consumptions of brew(); an exception of the first skips the second,
\* an exception of the second leaves the water consumed
brew_consume(tank, box, recipe) ==
    LET w == IF requires_water(recipe)
             THEN consume_water(tank, recipe.water_ml)
             ELSE [obj |-> tank, result |-> "None"]
    IN IF w.result # "None"
       THEN [water |-> w.obj, beans |-> box, result |-> w.result]
       ELSE LET b == IF requires_beans(recipe)
                     THEN consume_beans(box, recipe.beans_g)
                     ELSE [obj |-> box, result |-> "None"]
            IN [water |-> w.obj, beans |-> b.obj, result |-> b.result]

\* brew() reporting NEEDS_CLEANING as soon as a cleaning is scheduled
brew_state_on_schedule(cleaning_action) ==
    IF cleaning_action \in {"IMMEDIATE", "SCHEDULE"} THEN "NEEDS_CLEANING" ELSE "IDLE"

\* the state brew() sets for a cleaning action
brew_state(cleaning_action) ==
    IF cleaning_action = "IMMEDIATE" THEN "NEEDS_CLEANING" ELSE "IDLE"

\* brew() also raising the scheduled flag when cleaning is needed immediately
brew_cleaning_scheduled_on_immediate(cleaning_action, scheduled) ==
    IF cleaning_action = "IMMEDIATE" THEN TRUE
    ELSE IF cleaning_action = "SCHEDULE" THEN TRUE
    ELSE scheduled

\* brew() making the scheduled flag mirror the latest cleaning action
brew_cleaning_scheduled_mirrored(cleaning_action, scheduled) ==
    cleaning_action = "SCHEDULE"

\* the scheduled flag brew() leaves for a cleaning action
brew_cleaning_scheduled(cleaning_action, scheduled) ==
    IF cleaning_action = "IMMEDIATE" THEN scheduled
    ELSE IF cleaning_action = "SCHEDULE" THEN TRUE
    ELSE scheduled

\* brew() asking the cleaning policy without the time of the last cleaning
brew_accepted_without_ts(recipe) ==
    LET c == brew_consume(water_tank, bean_container, recipe)
    IN /\ water_tank' = c.water
       /\ bean_container' = c.beans
       /\ UNCHANGED <<active_recipe, last_cleaned_ts>>
       /\ IF c.result # "None"
          THEN /\ result' = c.result
               /\ UNCHANGED <<state, dirty_count, cleaning_scheduled>>
          ELSE LET cleaning_action ==
                       evaluate(cleaning_policy, dirty_count + 1, None, now)
               IN /\ dirty_count' = dirty_count + 1
                  /\ state' = brew_state(cleaning_action)
                  /\ cleaning_scheduled' =
                         brew_cleaning_scheduled(cleaning_action, cleaning_scheduled)
                  /\ result' = "OK"

\* brew() when the policy's decision is OK
brew_accepted(recipe) ==
    LET c == brew_consume(water_tank, bean_container, recipe)
    IN /\ water_tank' = c.water
       /\ bean_container' = c.beans
       /\ UNCHANGED <<active_recipe, last_cleaned_ts>>
       /\ IF c.result # "None"
          THEN /\ result' = c.result
               /\ UNCHANGED <<state, dirty_count, cleaning_scheduled>>
          ELSE LET cleaning_action ==
                       evaluate(cleaning_policy, dirty_count + 1, last_cleaned_ts, now)
               IN /\ dirty_count' = dirty_count + 1
                  /\ state' = brew_state(cleaning_action)
                  /\ cleaning_scheduled' =
                         brew_cleaning_scheduled(cleaning_action, cleaning_scheduled)
                  /\ result' = "OK"

brew ==
    /\ dirty_count < MaxDirty
    /\ op' = "brew" /\ arg' = 0
    /\ UNCHANGED <<policy_vars, caller_vars, now, before>>
    /\ IF active_recipe = NoRecipe
       THEN brew_no_recipe
       ELSE LET decision == can_brew(brew_policy, active_recipe,
                                     water_tank.current_level,
                                     bean_container.current_grams,
                                     [dirty_count |-> dirty_count])
            IN IF decision # "OK"
               THEN brew_rejected(decision)
               ELSE brew_accepted(active_recipe)

\* clean() leaving the scheduled flag as it was
clean_keeps_scheduled ==
    /\ op' = "clean" /\ arg' = 0 /\ result' = "None"
    /\ dirty_count' = 0
    /\ last_cleaned_ts' = now
    /\ state' = "IDLE"
    /\ UNCHANGED <<water_tank, bean_container, policy_vars, caller_vars, active_recipe,
                   cleaning_scheduled, now, before>>

\* clean() leaving the brew counter as it was
clean_keeps_count ==
    /\ op' = "clean" /\ arg' = 0 /\ result' = "None"
    /\ last_cleaned_ts' = now
    /\ cleaning_scheduled' = FALSE
    /\ state' = "IDLE"
    /\ UNCHANGED <<water_tank, bean_container, policy_vars, caller_vars, active_recipe,
                   dirty_count, now, before>>

clean ==
    /\ op' = "clean" /\ arg' = 0 /\ result' = "None"
    /\ dirty_count' = 0
    /\ last_cleaned_ts' = now
    /\ cleaning_scheduled' = FALSE
    /\ state' = "IDLE"
    /\ UNCHANGED <<water_tank, bean_container, policy_vars, caller_vars, active_recipe, now, before>>

\* schedule_cleaning() also resetting the brew counter
schedule_cleaning_resets_count ==
    /\ op' = "schedule_cleaning" /\ arg' = 0 /\ result' = "None"
    /\ cleaning_scheduled' = TRUE
    /\ dirty_count' = 0
    /\ UNCHANGED <<water_tank, bean_container, policy_vars, caller_vars, state, active_recipe,
                   last_cleaned_ts, now, before>>

schedule_cleaning ==
    /\ op' = "schedule_cleaning" /\ arg' = 0 /\ result' = "None"
    /\ cleaning_scheduled' = TRUE
    /\ UNCHANGED <<water_tank, bean_container, policy_vars, caller_vars, state, active_recipe,
                   dirty_count, last_cleaned_ts, now, before>>

\* refill_water() asking the injected policy: under StrictRefillPolicy an
\* overflowing refill is refused with OVERFLOW_ERROR and the level kept
refill_water_by_policy(amount) ==
    LET r == WaterTank_refill(water_tank, amount)
        overflow == /\ refill_policy = "StrictRefillPolicy"
                    /\ amount > 0
                    /\ water_tank.current_level + amount > water_tank.maximum_level
    IN /\ op' = "refill_water" /\ arg' = amount
       /\ result' = IF overflow THEN "OVERFLOW_ERROR" ELSE r.result
       /\ water_tank' = IF overflow THEN water_tank ELSE r.obj
       /\ UNCHANGED <<bean_container, policy_vars, caller_vars, machine_vars, now, before>>

\* refill_water() putting the machine back to IDLE once water was added
refill_water_resets_state(amount) ==
    LET r == WaterTank_refill(water_tank, amount)
    IN /\ op' = "refill_water" /\ arg' = amount /\ result' = r.result
       /\ water_tank' = r.obj
       /\ state' = IF r.result \in {"NOW_FULL", "STILL_NOT_FULL"} THEN "IDLE" ELSE state
       /\ UNCHANGED <<bean_container, policy_vars, caller_vars, active_recipe, dirty_count,
                      last_cleaned_ts, cleaning_scheduled, now, before>>

refill_water(amount) ==
    LET r == WaterTank_refill(water_tank, amount)
    IN /\ op' = "refill_water" /\ arg' = amount /\ result' = r.result
       /\ water_tank' = r.obj
       /\ UNCHANGED <<bean_container, policy_vars, caller_vars, machine_vars, now, before>>

refill_beans(amount) ==
    LET r == BeanContainer_refill(bean_container, amount)
    IN /\ op' = "refill_beans" /\ arg' = amount /\ result' = r.result
       /\ bean_container' = r.obj
       /\ UNCHANGED <<water_tank, policy_vars, caller_vars, machine_vars, now, before>>

\* time passes between two calls (a step of the specifications whose cleaning
\* policy compares the clock with last_cleaned_ts)
Tick ==
    /\ now < MaxTime
    /\ now' = now + 1
    /\ UNCHANGED <<water_tank, bean_container, policy_vars, caller_vars, machine_vars,
                   op, arg, result, before>>

\* SimpleCoffeeMachine.__init__ over validly constructed containers of capacity
\* MaxLevel and validly constructed policies, the cleaning policy without
\* max_time_between_cleans (its default), the refill policy of run.py
Init ==
    /\ water_tank \in { t \in WaterTanks : t.maximum_level = MaxLevel }
    /\ bean_container \in { b \in BeanContainers : b.maximum_grams = MaxLevel }
    /\ brew_policy \in BrewPolicies
    /\ cleaning_policy \in { p \in CleaningPolicies : p.max_time_between_cleans = None }
    /\ refill_policy = "CapRefillPolicy"
    /\ state = "IDLE"
    /\ active_recipe = NoRecipe
    /\ dirty_count = 0
    /\ last_cleaned_ts = None
    /\ cleaning_scheduled = FALSE
    /\ now = 0
    /\ op = "init" /\ arg = 0 /\ result = "None" /\ before = 0
    /\ callers = [c \in Callers |-> IdleCaller] /\ mutex = Free

Next ==
    \/ \E recipe \in Recipes : select_recipe(recipe)
    \/ brew
    \/ clean
    \/ schedule_cleaning
    \/ \E amount \in RefillAmounts : refill_water(amount)
    \/ \E amount \in RefillAmounts : refill_beans(amount)

Spec == Init /\ [][Next]_vars

\* SimpleCoffeeMachine.__init__ with a cleaning policy of any valid configuration,
\* max_time_between_cleans included, and the brew policy that lets the brew
\* counter run furthest; the clock advances between the calls
InitTimed ==
    /\ water_tank \in { t \in WaterTanks : t.maximum_level = MaxLevel }
    /\ bean_container \in { b \in BeanContainers : b.maximum_grams = MaxLevel }
    /\ brew_policy = [clean_threshold |-> MaxThreshold,
                      allow_recipe_with_no_requirements |-> FALSE]
    /\ cleaning_policy \in CleaningPolicies
    /\ refill_policy = "CapRefillPolicy"
    /\ state = "IDLE"
    /\ active_recipe = NoRecipe
    /\ dirty_count = 0
    /\ last_cleaned_ts = None
    /\ cleaning_scheduled = FALSE
    /\ now = 0
    /\ op = "init" /\ arg = 0 /\ result = "None" /\ before = 0
    /\ callers = [c \in Callers |-> IdleCaller] /\ mutex = Free

NextTimed ==
    \/ Next
    \/ Tick

SpecTimed == InitTimed /\ [][NextTimed]_vars

\* SimpleCoffeeMachine.__init__ with a refill policy of either class; the
\* brew policy is the one that lets the brew counter run furthest
InitInjected ==
    /\ water_tank \in { t \in WaterTanks : t.maximum_level = MaxLevel }
    /\ bean_container \in { b \in BeanContainers : b.maximum_grams = MaxLevel }
    /\ brew_policy = [clean_threshold |-> MaxThreshold,
                      allow_recipe_with_no_requirements |-> FALSE]
    /\ cleaning_policy \in { p \in CleaningPolicies : p.max_time_between_cleans = None }
    /\ refill_policy \in RefillPolicies
    /\ state = "IDLE"
    /\ active_recipe = NoRecipe
    /\ dirty_count = 0
    /\ last_cleaned_ts = None
    /\ cleaning_scheduled = FALSE
    /\ now = 0
    /\ op = "init" /\ arg = 0 /\ result = "None" /\ before = 0
    /\ callers = [c \in Callers |-> IdleCaller] /\ mutex = Free

\* amounts up to one more than a whole container, so that a refill can
\* overflow whatever the level is
OverfillAmounts == 0..MaxLevel + 1

NextInjected ==
    \/ \E recipe \in Recipes : select_recipe(recipe)
    \/ brew
    \/ clean
    \/ schedule_cleaning
    \/ \E amount \in OverfillAmounts : refill_water(amount)
    \/ \E amount \in OverfillAmounts : refill_beans(amount)

SpecInjected == InitInjected /\ [][NextInjected]_vars

-----------------------------------------------------------------------------
(* The containers on their own, called directly as the unit tests do *)

\* a variable of an object that does not exist in a specification
Absent == "absent"

call_consume_water(use_level) ==
    LET r == consume_water(water_tank, use_level)
    IN /\ op' = "consume_water" /\ arg' = use_level /\ result' = r.result
       /\ water_tank' = r.obj
       /\ UNCHANGED <<bean_container, policy_vars, caller_vars, machine_vars, now>>
       /\ before' = water_tank.current_level

call_WaterTank_refill(refill_level) ==
    LET r == WaterTank_refill(water_tank, refill_level)
    IN /\ op' = "WaterTank.refill" /\ arg' = refill_level /\ result' = r.result
       /\ water_tank' = r.obj
       /\ UNCHANGED <<bean_container, policy_vars, caller_vars, machine_vars, now>>
       /\ before' = water_tank.current_level

call_consume_beans(amount_grams) ==
    LET r == consume_beans(bean_container, amount_grams)
    IN /\ op' = "consume_beans" /\ arg' = amount_grams /\ result' = r.result
       /\ bean_container' = r.obj
       /\ UNCHANGED <<water_tank, policy_vars, caller_vars, machine_vars, now>>
       /\ before' = bean_container.current_grams

call_BeanContainer_refill(refill_grams) ==
    LET r == BeanContainer_refill(bean_container, refill_grams)
    IN /\ op' = "BeanContainer.refill" /\ arg' = refill_grams /\ result' = r.result
       /\ bean_container' = r.obj
       /\ UNCHANGED <<water_tank, policy_vars, caller_vars, machine_vars, now>>
       /\ before' = bean_container.current_grams

InitContainers ==
    /\ water_tank \in WaterTanks
    /\ bean_container \in BeanContainers
    /\ brew_policy = Absent
    /\ cleaning_policy = Absent
    /\ refill_policy = Absent
    /\ state = Absent
    /\ active_recipe = Absent
    /\ dirty_count = 0
    /\ last_cleaned_ts = None
    /\ cleaning_scheduled = FALSE
    /\ now = 0
    /\ op = "init" /\ arg = 0 /\ result = "None" /\ before = 0
    /\ callers = [c \in Callers |-> IdleCaller] /\ mutex = Free

NextContainers ==
    \/ \E use_level \in Amounts : call_consume_water(use_level)
    \/ \E refill_level \in Amounts : call_WaterTank_refill(refill_level)
    \/ \E amount_grams \in Amounts : call_consume_beans(amount_grams)
    \/ \E refill_grams \in Amounts : call_BeanContainer_refill(refill_grams)

SpecContainers == InitContainers /\ [][NextContainers]_vars

-----------------------------------------------------------------------------
(* The constructors of the containers, called with arbitrary arguments *)

call_WaterTank(maximum_level, initial_level) ==
    LET r == WaterTank_init(maximum_level, initial_level)
    IN /\ op' = "WaterTank"
       /\ arg' = [maximum |-> maximum_level, initial |-> initial_level]
       /\ result' = r.result
       /\ water_tank' = r.obj
       /\ UNCHANGED <<bean_container, policy_vars, caller_vars, machine_vars, now, before>>

call_BeanContainer(maximum_grams, initial_grams) ==
    LET r == BeanContainer_init(maximum_grams, initial_grams)
    IN /\ op' = "BeanContainer"
       /\ arg' = [maximum |-> maximum_grams, initial |-> initial_grams]
       /\ result' = r.result
       /\ bean_container' = r.obj
       /\ UNCHANGED <<water_tank, policy_vars, caller_vars, machine_vars, now, before>>

InitConstruct ==
    /\ water_tank = NoTank
    /\ bean_container = NoBox
    /\ brew_policy = Absent
    /\ cleaning_policy = Absent
    /\ refill_policy = Absent
    /\ state = Absent
    /\ active_recipe = Absent
    /\ dirty_count = 0
    /\ last_cleaned_ts = None
    /\ cleaning_scheduled = FALSE
    /\ now = 0
    /\ op = "init" /\ arg = 0 /\ result = "None" /\ before = 0
    /\ callers = [c \in Callers |-> IdleCaller] /\ mutex = Free

NextConstruct ==
    \/ \E m \in -1..MaxLevel, i \in -1..MaxLevel : call_WaterTank(m, i)
    \/ \E m \in -1..MaxLevel, i \in -1..MaxLevel : call_BeanContainer(m, i)

SpecConstruct == InitConstruct /\ [][NextConstruct]_vars

-----------------------------------------------------------------------------
(* The constructor of CoffeeRecipe, called with arbitrary arguments *)

\* names: every str of at most MaxName characters out of a blank and a
\* letter, and None
NameValues ==
    { PyValue("str", n) : n \in UNION { [1..k -> {" ", "a"}] : k \in 0..MaxName } }
        \cup { PyValue("NoneType", <<>>) }

\* the amounts on both sides of 0 and of a maximum as int, 1.0 as float,
\* True as bool
AmountValues(maximum) ==
    { PyValue("int", n) : n \in {-1, 0, maximum, maximum + 1} }
        \cup { PyValue("float", 1), PyValue("bool", 1) }

\* grind: None, a member of the enum, or the member's name as a str
GrindValues ==
    { PyValue("NoneType", "None"),
      PyValue("CoffeeRecipeGrindLevel", "FINE"),
      PyValue("CoffeeRecipeGrindLevel", "MEDIUM"),
      PyValue("CoffeeRecipeGrindLevel", "COARSE"),
      PyValue("str", "COARSE") }

call_CoffeeRecipe(name, water_ml, beans_g, grind) ==
    LET r == CoffeeRecipe_post_init(name, water_ml, beans_g, grind)
    IN /\ op' = "CoffeeRecipe"
       /\ arg' = [name |-> name, water_ml |-> water_ml, beans_g |-> beans_g,
                  grind |-> grind]
       /\ result' = r.result
       /\ active_recipe' = r.obj
       /\ UNCHANGED <<water_tank, bean_container, policy_vars, caller_vars, state, dirty_count,
                      last_cleaned_ts, cleaning_scheduled, now, before>>

InitRecipe ==
    /\ water_tank = Absent
    /\ bean_container = Absent
    /\ brew_policy = Absent
    /\ cleaning_policy = Absent
    /\ refill_policy = Absent
    /\ state = Absent
    /\ active_recipe = NoRecipe
    /\ dirty_count = 0
    /\ last_cleaned_ts = None
    /\ cleaning_scheduled = FALSE
    /\ now = 0
    /\ op = "init" /\ arg = 0 /\ result = "None" /\ before = 0
    /\ callers = [c \in Callers |-> IdleCaller] /\ mutex = Free

NextRecipe ==
    \E name \in NameValues, water_ml \in AmountValues(MAX_WATER_ML),
       beans_g \in AmountValues(MAX_BEANS_G), grind \in GrindValues :
           call_CoffeeRecipe(name, water_ml, beans_g, grind)

SpecRecipe == InitRecipe /\ [][NextRecipe]_vars

-----------------------------------------------------------------------------
(* The brew policy on its own, called with arbitrary arguments *)

MaintenanceStates == {EmptyDict} \cup { [dirty_count |-> d] : d \in 0..MaxDirty }

\* can_brew() keeping in the policy object what it saw: after a call for a
\* recipe without requirements the policy allows such recipes
call_can_brew_remembering(recipe, water_available_ml, beans_available_g, maintenance_state) ==
    /\ op' = "can_brew"
    /\ arg' = [recipe |-> recipe,
               water_available_ml |-> water_available_ml,
               beans_available_g |-> beans_available_g,
               maintenance_state |-> maintenance_state]
    /\ result' = can_brew(brew_policy, recipe, water_available_ml,
                          beans_available_g, maintenance_state)
    /\ brew_policy' =
           IF ~requires_water(recipe) /\ ~requires_beans(recipe)
           THEN [brew_policy EXCEPT !.allow_recipe_with_no_requirements = TRUE]
           ELSE brew_policy
    /\ UNCHANGED <<water_tank, bean_container, cleaning_policy, refill_policy,
                   caller_vars, machine_vars, now, before>>

call_can_brew(recipe, water_available_ml, beans_available_g, maintenance_state) ==
    /\ op' = "can_brew"
    /\ arg' = [recipe |-> recipe,
               water_available_ml |-> water_available_ml,
               beans_available_g |-> beans_available_g,
               maintenance_state |-> maintenance_state]
    /\ result' = can_brew(brew_policy, recipe, water_available_ml,
                          beans_available_g, maintenance_state)
    /\ UNCHANGED <<water_tank, bean_container, policy_vars, caller_vars, machine_vars, now, before>>

InitPolicy ==
    /\ water_tank = Absent
    /\ bean_container = Absent
    /\ brew_policy \in BrewPolicies
    /\ cleaning_policy = Absent
    /\ refill_policy = Absent
    /\ state = Absent
    /\ active_recipe = Absent
    /\ dirty_count = 0
    /\ last_cleaned_ts = None
    /\ cleaning_scheduled = FALSE
    /\ now = 0
    /\ op = "init" /\ arg = 0 /\ result = "None" /\ before = 0
    /\ callers = [c \in Callers |-> IdleCaller] /\ mutex = Free

NextPolicy ==
    \E recipe \in Recipes, w \in 0..MaxLevel, b \in 0..MaxLevel,
       ms \in MaintenanceStates : call_can_brew(recipe, w, b, ms)

SpecPolicy == InitPolicy /\ [][NextPolicy]_vars

-----------------------------------------------------------------------------
(* CapRefillPolicy and StrictRefillPolicy; on_refill returns the pair        *)
(* (new level, result), a ValueError returns no level                        *)

RefillResult == {"NOW_FULL", "STILL_NOT_FULL", "OVERFLOW_ERROR"}

\* CapRefillPolicy.on_refill comparing with > instead of >=
CapRefillPolicy_on_refill_gt(current_level, refill_amount, maximum) ==
    IF refill_amount <= 0
    THEN [new_level |-> None, result |-> "ValueError"]
    ELSE LET new_level == current_level + refill_amount
         IN IF new_level > maximum
            THEN [new_level |-> maximum, result |-> "NOW_FULL"]
            ELSE [new_level |-> new_level, result |-> "STILL_NOT_FULL"]

CapRefillPolicy_on_refill(current_level, refill_amount, maximum) ==
    IF refill_amount <= 0
    THEN [new_level |-> None, result |-> "ValueError"]
    ELSE LET new_level == current_level + refill_amount
         IN IF new_level >= maximum
            THEN [new_level |-> maximum, result |-> "NOW_FULL"]
            ELSE [new_level |-> new_level, result |-> "STILL_NOT_FULL"]

\* StrictRefillPolicy.on_refill reporting the overflow but still capping the level
StrictRefillPolicy_on_refill_capping(current_level, refill_amount, maximum) ==
    IF refill_amount <= 0
    THEN [new_level |-> None, result |-> "ValueError"]
    ELSE LET new_level == current_level + refill_amount
         IN IF new_level > maximum
            THEN [new_level |-> maximum, result |-> "OVERFLOW_ERROR"]
            ELSE IF new_level = maximum
            THEN [new_level |-> maximum, result |-> "NOW_FULL"]
            ELSE [new_level |-> new_level, result |-> "STILL_NOT_FULL"]

StrictRefillPolicy_on_refill(current_level, refill_amount, maximum) ==
    IF refill_amount <= 0
    THEN [new_level |-> None, result |-> "ValueError"]
    ELSE LET new_level == current_level + refill_amount
         IN IF new_level > maximum
            THEN [new_level |-> current_level, result |-> "OVERFLOW_ERROR"]
            ELSE IF new_level = maximum
            THEN [new_level |-> maximum, result |-> "NOW_FULL"]
            ELSE [new_level |-> new_level, result |-> "STILL_NOT_FULL"]

-----------------------------------------------------------------------------
(* The cleaning policy and the refill policies on their own, called with     *)
(* arbitrary arguments as the unit tests do                                  *)

\* evaluate(dirty_count, last_cleaned_ts) called when the clock shows utcnow
call_evaluate(dirty_count_, last_cleaned_ts_, utcnow) ==
    /\ utcnow >= now
    /\ now' = utcnow
    /\ op' = "evaluate"
    /\ arg' = [dirty_count |-> dirty_count_, last_cleaned_ts |-> last_cleaned_ts_]
    /\ result' = evaluate(cleaning_policy, dirty_count_, last_cleaned_ts_, utcnow)
    /\ before' = 0
    /\ UNCHANGED <<water_tank, bean_container, policy_vars, caller_vars, machine_vars>>

call_CapRefillPolicy_on_refill(current_level, refill_amount, maximum) ==
    LET r == CapRefillPolicy_on_refill(current_level, refill_amount, maximum)
    IN /\ op' = "CapRefillPolicy.on_refill"
       /\ arg' = [current_level |-> current_level, refill_amount |-> refill_amount,
                  maximum |-> maximum]
       /\ result' = r.result
       /\ before' = r.new_level
       /\ UNCHANGED <<water_tank, bean_container, policy_vars, caller_vars, machine_vars, now>>

call_StrictRefillPolicy_on_refill(current_level, refill_amount, maximum) ==
    LET r == StrictRefillPolicy_on_refill(current_level, refill_amount, maximum)
    IN /\ op' = "StrictRefillPolicy.on_refill"
       /\ arg' = [current_level |-> current_level, refill_amount |-> refill_amount,
                  maximum |-> maximum]
       /\ result' = r.result
       /\ before' = r.new_level
       /\ UNCHANGED <<water_tank, bean_container, policy_vars, caller_vars, machine_vars, now>>

InitCleaningRefill ==
    /\ water_tank = Absent
    /\ bean_container = Absent
    /\ brew_policy = Absent
    /\ cleaning_policy \in CleaningPolicies
    /\ refill_policy = Absent
    /\ state = Absent
    /\ active_recipe = Absent
    /\ dirty_count = 0
    /\ last_cleaned_ts = None
    /\ cleaning_scheduled = FALSE
    /\ now = 0
    /\ op = "init" /\ arg = 0 /\ result = "None" /\ before = 0
    /\ callers = [c \in Callers |-> IdleCaller] /\ mutex = Free

NextCleaningRefill ==
    \/ \E d \in 0..MaxDirty, ts \in {None} \cup 0..MaxTime, t \in 0..MaxTime :
           call_evaluate(d, ts, t)
    \/ \E c \in 0..MaxLevel, a \in Amounts, m \in 1..MaxLevel :
           call_CapRefillPolicy_on_refill(c, a, m)
    \/ \E c \in 0..MaxLevel, a \in Amounts, m \in 1..MaxLevel :
           call_StrictRefillPolicy_on_refill(c, a, m)

SpecCleaningRefill == InitCleaningRefill /\ [][NextCleaningRefill]_vars

-----------------------------------------------------------------------------
(* A machine whose brew policy and cleaning policy objects are shared with   *)
(* a second machine that owns its own containers.  All the second machine    *)
(* does to the shared objects is call can_brew and evaluate with its own     *)
(* recipe, levels, counter and timestamp                                     *)

\* the recipes, levels and counters of the second machine
OtherRecipes == {[water_ml |-> 0, beans_g |-> 0], [water_ml |-> 1, beans_g |-> 1]}

OtherLevels == {0, MaxLevel}

OtherDirty == {0, MaxDirty}

InitShared ==
    /\ water_tank \in { t \in WaterTanks : t.maximum_level = MaxLevel }
    /\ bean_container \in { b \in BeanContainers : b.maximum_grams = MaxLevel }
    /\ brew_policy = [clean_threshold |-> MaxThreshold,
                      allow_recipe_with_no_requirements |-> FALSE]
    /\ cleaning_policy \in { p \in CleaningPolicies : p.max_time_between_cleans = None }
    /\ refill_policy = "CapRefillPolicy"
    /\ state = "IDLE"
    /\ active_recipe = NoRecipe
    /\ dirty_count = 0
    /\ last_cleaned_ts = None
    /\ cleaning_scheduled = FALSE
    /\ now = 0
    /\ op = "init" /\ arg = 0 /\ result = "None" /\ before = 0
    /\ callers = [c \in Callers |-> IdleCaller] /\ mutex = Free

NextShared ==
    \/ Next
    \/ \E recipe \in OtherRecipes, w \in OtherLevels, d \in OtherDirty :
           call_can_brew(recipe, w, MaxLevel, [dirty_count |-> d])
    \/ \E d \in OtherDirty : call_evaluate(d, None, now)

SpecShared == InitShared /\ [][NextShared]_vars

-----------------------------------------------------------------------------
(* brew() called by several callers, the whole of it inside one            *)
(* mutual-exclusion section, each statement of brew() a step of its own    *)

\* the caller's locals after a step
caller_at(c, pc, decision, returned) ==
    [callers EXCEPT ![c] = [@ EXCEPT !.pc = pc, !.decision = decision,
                                     !.returned = returned]]

\* a caller enters the section and with it brew(); the levels and the
\* counter it finds are recorded
brew_acquire(c) ==
    /\ callers[c].pc = "idle"
    /\ mutex = Free
    /\ dirty_count < MaxDirty
    /\ mutex' = c
    /\ callers' = [callers EXCEPT ![c] =
                       [@ EXCEPT !.pc = "called",
                                 !.entry = [water |-> water_tank.current_level,
                                            beans |-> bean_container.current_grams,
                                            dirty_count |-> dirty_count]]]
    /\ UNCHANGED <<water_tank, bean_container, policy_vars, machine_vars,
                   now, op, arg, result, before>>

\* the policy check leaving the section before the decision is acted on
brew_can_brew_unprotected(c) ==
    /\ callers[c].pc = "called"
    /\ callers' =
           IF active_recipe = NoRecipe
           THEN caller_at(c, "return", "None", "RuntimeError")
           ELSE caller_at(c, "decided",
                          can_brew(brew_policy, active_recipe,
                                   water_tank.current_level,
                                   bean_container.current_grams,
                                   [dirty_count |-> dirty_count]),
                          "None")
    /\ mutex' = Free
    /\ UNCHANGED <<water_tank, bean_container, policy_vars, machine_vars,
                   now, op, arg, result, before>>

\* the recipe test and the policy check of brew()
brew_can_brew(c) ==
    /\ callers[c].pc = "called"
    /\ callers' =
           IF active_recipe = NoRecipe
           THEN caller_at(c, "return", "None", "RuntimeError")
           ELSE caller_at(c, "decided",
                          can_brew(brew_policy, active_recipe,
                                   water_tank.current_level,
                                   bean_container.current_grams,
                                   [dirty_count |-> dirty_count]),
                          "None")
    /\ UNCHANGED <<water_tank, bean_container, policy_vars, machine_vars,
                   now, op, arg, result, before, mutex>>

\* a decision other than OK is written to state and returned
brew_return_decision(c) ==
    /\ callers[c].pc = "decided"
    /\ callers[c].decision # "OK"
    /\ state' = callers[c].decision
    /\ callers' = caller_at(c, "return", callers[c].decision, callers[c].decision)
    /\ UNCHANGED <<water_tank, bean_container, policy_vars, active_recipe,
                   dirty_count, last_cleaned_ts, cleaning_scheduled,
                   now, op, arg, result, before, mutex>>

\* if recipe.requires_water(): consume_water(recipe.water_ml)
brew_consume_water(c) ==
    /\ callers[c].pc = "decided"
    /\ callers[c].decision = "OK"
    /\ LET r == IF requires_water(active_recipe)
                THEN consume_water(water_tank, active_recipe.water_ml)
                ELSE [obj |-> water_tank, result |-> "None"]
       IN /\ water_tank' = r.obj
          /\ callers' = IF r.result = "None"
                        THEN caller_at(c, "water_consumed", "OK", "None")
                        ELSE caller_at(c, "return", "OK", r.result)
    /\ UNCHANGED <<bean_container, policy_vars, machine_vars,
                   now, op, arg, result, before, mutex>>

\* if recipe.requires_beans(): consume_beans(recipe.beans_g)
brew_consume_beans(c) ==
    /\ callers[c].pc = "water_consumed"
    /\ LET r == IF requires_beans(active_recipe)
                THEN consume_beans(bean_container, active_recipe.beans_g)
                ELSE [obj |-> bean_container, result |-> "None"]
       IN /\ bean_container' = r.obj
          /\ callers' = IF r.result = "None"
                        THEN caller_at(c, "consumed", "OK", "None")
                        ELSE caller_at(c, "return", "OK", r.result)
    /\ UNCHANGED <<water_tank, policy_vars, machine_vars,
                   now, op, arg, result, before, mutex>>

\* dirty_count += 1, the cleaning policy's answer written to state and to
\* cleaning_scheduled, and OK returned
brew_update_maintenance(c) ==
    /\ callers[c].pc = "consumed"
    /\ LET cleaning_action ==
               evaluate(cleaning_policy, dirty_count + 1, last_cleaned_ts, now)
       IN /\ dirty_count' = dirty_count + 1
          /\ state' = brew_state(cleaning_action)
          /\ cleaning_scheduled' =
                 brew_cleaning_scheduled(cleaning_action, cleaning_scheduled)
    /\ callers' = caller_at(c, "return", "OK", "OK")
    /\ UNCHANGED <<water_tank, bean_container, policy_vars, active_recipe,
                   last_cleaned_ts, now, op, arg, result, before, mutex>>

\* the caller gets what brew() returned or raised and leaves the section
brew_release(c) ==
    /\ callers[c].pc = "return"
    /\ mutex' = Free
    /\ callers' = [callers EXCEPT ![c] = IdleCaller]
    /\ op' = "brew" /\ arg' = c /\ result' = callers[c].returned
    /\ UNCHANGED <<water_tank, bean_container, policy_vars, machine_vars,
                   now, before>>

InitConcurrent ==
    /\ water_tank \in { t \in WaterTanks : t.maximum_level = MaxLevel }
    /\ bean_container \in { b \in BeanContainers : b.maximum_grams = MaxLevel }
    /\ brew_policy \in BrewPolicies
    /\ cleaning_policy \in { p \in CleaningPolicies : p.max_time_between_cleans = None }
    /\ refill_policy = "CapRefillPolicy"
    /\ state = "IDLE"
    /\ active_recipe \in Recipes \cup {NoRecipe}
    /\ dirty_count = 0
    /\ last_cleaned_ts = None
    /\ cleaning_scheduled = FALSE
    /\ now = 0
    /\ op = "init" /\ arg = 0 /\ result = "None" /\ before = 0
    /\ callers = [c \in Callers |-> IdleCaller] /\ mutex = Free

NextConcurrent ==
    \/ \E c \in Callers : brew_acquire(c)
    \/ \E c \in Callers : brew_can_brew(c)
    \/ \E c \in Callers : brew_return_decision(c)
    \/ \E c \in Callers : brew_consume_water(c)
    \/ \E c \in Callers : brew_consume_beans(c)
    \/ \E c \in Callers : brew_update_maintenance(c)
    \/ \E c \in Callers : brew_release(c)

SpecConcurrent == InitConcurrent /\ [][NextConcurrent]_vars

-----------------------------------------------------------------------------
(* Properties of the containers (SpecContainers) *)

Min(a, b) == IF a <= b THEN a ELSE b

LevelsWithinCapacity ==
    /\ 0 <= water_tank.current_level
    /\ water_tank.current_level <= water_tank.maximum_level
    /\ 0 <= bean_container.current_grams
    /\ bean_container.current_grams <= bean_container.maximum_grams

CapacityKept ==
    /\ water_tank'.maximum_level = water_tank.maximum_level
    /\ bean_container'.maximum_grams = bean_container.maximum_grams

\* C1: in every state reached from validly constructed containers by consume
\* and refill calls with any amounts, failing calls included, both levels lie
\* between 0 and the container's maximum, and no call changes a maximum.
C1_LevelsBoundedCapacityFixed == []LevelsWithinCapacity /\ [][CapacityKept]_vars

\* a refill larger than the whole capacity, into a tank that was not empty, was capped
C1_Witness ==
    /\ op = "WaterTank.refill"
    /\ arg > water_tank.maximum_level
    /\ before > 0
    /\ result = "NOW_FULL"
    /\ water_tank.current_level = water_tank.maximum_level

\* C4: a container call that fails leaves the level as it was: consume with
\* amount <= 0 (invalid operation), consume with amount > level (not enough),
\* refill with amount <= 0 (invalid operation); for water and for beans.
C4_FailedCallKeepsLevel ==
    /\ (op = "consume_water" /\ arg <= 0) =>
           (result = "InvalidWaterOperationError" /\ water_tank.current_level = before)
    /\ (op = "consume_water" /\ arg > 0 /\ arg > before) =>
           (result = "NotEnoughWaterError" /\ water_tank.current_level = before)
    /\ (op = "WaterTank.refill" /\ arg <= 0) =>
           (result = "InvalidWaterOperationError" /\ water_tank.current_level = before)
    /\ (op = "consume_beans" /\ arg <= 0) =>
           (result = "InvalidBeanOperationError" /\ bean_container.current_grams = before)
    /\ (op = "consume_beans" /\ arg > 0 /\ arg > before) =>
           (result = "NotEnoughBeansError" /\ bean_container.current_grams = before)
    /\ (op = "BeanContainer.refill" /\ arg <= 0) =>
           (result = "InvalidBeanOperationError" /\ bean_container.current_grams = before)
    /\ (op \in {"consume_water", "WaterTank.refill"}
          /\ result \in {"InvalidWaterOperationError", "NotEnoughWaterError"}) =>
           water_tank.current_level = before
    /\ (op \in {"consume_beans", "BeanContainer.refill"}
          /\ result \in {"InvalidBeanOperationError", "NotEnoughBeansError"}) =>
           bean_container.current_grams = before

\* more water asked for than a tank that is not empty holds
C4_Witness ==
    /\ op = "consume_water"
    /\ before > 0
    /\ arg > before
    /\ result = "NotEnoughWaterError"

\* C5: for every amount > 0, refill does not fail, sets the level to
\* min(level + amount, maximum) and returns NOW_FULL exactly when
\* level + amount >= maximum, else STILL_NOT_FULL (max 500, level 450,
\* refill 200: level 500 and NOW_FULL).
C5_RefillCapsAndReports ==
    /\ (op = "WaterTank.refill" /\ arg > 0) =>
           /\ water_tank.current_level = Min(before + arg, water_tank.maximum_level)
           /\ result = IF before + arg >= water_tank.maximum_level
                       THEN "NOW_FULL" ELSE "STILL_NOT_FULL"
    /\ (op = "BeanContainer.refill" /\ arg > 0) =>
           /\ bean_container.current_grams = Min(before + arg, bean_container.maximum_grams)
           /\ result = IF before + arg >= bean_container.maximum_grams
                       THEN "NOW_FULL" ELSE "STILL_NOT_FULL"
    /\ WaterTank_refill([maximum_level |-> 500, current_level |-> 450], 200)
           = [obj |-> [maximum_level |-> 500, current_level |-> 500], result |-> "NOW_FULL"]
    /\ BeanContainer_refill([maximum_grams |-> 500, current_grams |-> 450], 200)
           = [obj |-> [maximum_grams |-> 500, current_grams |-> 500], result |-> "NOW_FULL"]

\* a refill that reaches the maximum exactly, from a container that was not full
C5_Witness ==
    /\ op = "BeanContainer.refill"
    /\ arg > 0
    /\ before < bean_container.maximum_grams
    /\ before + arg = bean_container.maximum_grams
    /\ result = "NOW_FULL"

\* C6: for every amount with 0 < amount <= level, consume succeeds and sets the
\* level to level - amount; consuming the whole level leaves the container empty.
C6_ConsumeSubtracts ==
    /\ (op = "consume_water" /\ 0 < arg /\ arg <= before) =>
           /\ result = "None"
           /\ water_tank.current_level = before - arg
           /\ (arg = before => WaterTank_is_empty(water_tank))
    /\ (op = "consume_beans" /\ 0 < arg /\ arg <= before) =>
           /\ result = "None"
           /\ bean_container.current_grams = before - arg
           /\ (arg = before => BeanContainer_is_empty(bean_container))

\* the whole content consumed in one call
C6_Witness ==
    /\ op = "consume_beans"
    /\ arg = before
    /\ arg > 1
    /\ result = "None"
    /\ BeanContainer_is_empty(bean_container)

\* C7: refilling a container that is full with any amount > 0 returns NOW_FULL
\* and leaves it full, every time it is done.
C7_RefillOfFullContainer ==
    /\ (op = "WaterTank.refill" /\ arg > 0 /\ before = water_tank.maximum_level) =>
           (result = "NOW_FULL" /\ water_tank.current_level = water_tank.maximum_level)
    /\ (op = "BeanContainer.refill" /\ arg > 0 /\ before = bean_container.maximum_grams) =>
           (result = "NOW_FULL" /\ bean_container.current_grams = bean_container.maximum_grams)

\* a tank that was full when refill was called
C7_Witness ==
    /\ op = "WaterTank.refill"
    /\ arg > 0
    /\ before = water_tank.maximum_level
    /\ result = "NOW_FULL"
    /\ WaterTank_is_full(water_tank)

-----------------------------------------------------------------------------
(* Properties of the brew policy (SpecPolicy) *)

\* DefaultBrewPolicy() built with the defaults of its constructor
DefaultBrewPolicy_defaults ==
    [clean_threshold |-> 100, allow_recipe_with_no_requirements |-> FALSE]

\* the first-match-wins reference for a recipe requiring at least one resource
BrewReference(clean_threshold, recipe, water, beans, dirty) ==
    CASE recipe.water_ml > 0 /\ water < recipe.water_ml -> "OUT_OF_WATER"
      [] ~(recipe.water_ml > 0 /\ water < recipe.water_ml)
           /\ recipe.beans_g > 0 /\ beans < recipe.beans_g -> "OUT_OF_BEANS"
      [] ~(recipe.water_ml > 0 /\ water < recipe.water_ml)
           /\ ~(recipe.beans_g > 0 /\ beans < recipe.beans_g)
           /\ dirty >= clean_threshold -> "NEEDS_CLEANING"
      [] OTHER -> "OK"

\* the last call was can_brew with a dirty_count in its maintenance state
CanBrewCalled ==
    /\ op = "can_brew"
    /\ "dirty_count" \in DOMAIN arg.maintenance_state

\* C8: for every recipe requiring at least one resource and every water level,
\* bean level and dirty_count, can_brew returns what the first-match-wins
\* reference returns; a level equal to the requirement is enough, a shortage is
\* reported rather than NEEDS_CLEANING, and dirty_count = clean_threshold
\* already gives NEEDS_CLEANING.
C8_CanBrewIsFirstMatchReference ==
    (CanBrewCalled /\ (arg.recipe.water_ml > 0 \/ arg.recipe.beans_g > 0)) =>
        LET r == arg.recipe
            w == arg.water_available_ml
            b == arg.beans_available_g
            d == arg.maintenance_state["dirty_count"]
            short == \/ (r.water_ml > 0 /\ w < r.water_ml)
                     \/ (r.beans_g > 0 /\ b < r.beans_g)
        IN /\ result = BrewReference(brew_policy.clean_threshold, r, w, b, d)
           /\ (w = r.water_ml /\ r.water_ml > 0) => result # "OUT_OF_WATER"
           /\ (b = r.beans_g /\ r.beans_g > 0) => result # "OUT_OF_BEANS"
           /\ short => result \in {"OUT_OF_WATER", "OUT_OF_BEANS"}
           /\ (~short /\ d = brew_policy.clean_threshold) => result = "NEEDS_CLEANING"
           /\ (~short /\ d < brew_policy.clean_threshold) => result = "OK"

\* both levels exactly what the recipe needs, the dirty counter at the threshold
C8_Witness ==
    /\ CanBrewCalled
    /\ arg.recipe.water_ml > 0 /\ arg.recipe.beans_g > 0
    /\ arg.water_available_ml = arg.recipe.water_ml
    /\ arg.beans_available_g = arg.recipe.beans_g
    /\ arg.maintenance_state["dirty_count"] = brew_policy.clean_threshold
    /\ brew_policy.clean_threshold > 0
    /\ result = "NEEDS_CLEANING"

\* C10: for a recipe requiring neither water nor beans, can_brew depends on the
\* allow flag only: RECIPE_FORBIDDEN when it is false (the constructor's
\* default), OK when it is true, whatever the levels and dirty_count, at or
\* above clean_threshold too.
C10_EmptyRecipeFollowsFlag ==
    /\ (op = "can_brew" /\ arg.recipe.water_ml = 0 /\ arg.recipe.beans_g = 0) =>
           result = IF brew_policy.allow_recipe_with_no_requirements
                       THEN "OK" ELSE "RECIPE_FORBIDDEN"
    /\ \A d \in 0..MaxDirty :
           can_brew(DefaultBrewPolicy_defaults, [water_ml |-> 0, beans_g |-> 0],
                    MaxLevel, MaxLevel, [dirty_count |-> d]) = "RECIPE_FORBIDDEN"

\* an allowed empty recipe with the dirty counter at or above the threshold
C10_Witness ==
    /\ CanBrewCalled
    /\ arg.recipe.water_ml = 0 /\ arg.recipe.beans_g = 0
    /\ brew_policy.allow_recipe_with_no_requirements
    /\ arg.maintenance_state["dirty_count"] >= brew_policy.clean_threshold
    /\ result = "OK"

-----------------------------------------------------------------------------
(* Properties of the machine (Spec) *)

\* the decision the brew policy gives in the current state
Decision ==
    can_brew(brew_policy, active_recipe, water_tank.current_level,
             bean_container.current_grams, [dirty_count |-> dirty_count])

\* C2: when brew() gets a decision other than OK from the brew policy it
\* returns that decision, sets state to the decision's name and leaves the
\* water level, the bean level, dirty_count, cleaning_scheduled,
\* last_cleaned_ts and active_recipe as they were.
C2_RejectedBrewStep ==
    (op' = "brew" /\ active_recipe # NoRecipe /\ Decision # "OK") =>
        /\ result' = Decision
        /\ state' = Decision
        /\ water_tank' = water_tank
        /\ bean_container' = bean_container
        /\ dirty_count' = dirty_count
        /\ cleaning_scheduled' = cleaning_scheduled
        /\ last_cleaned_ts' = last_cleaned_ts
        /\ active_recipe' = active_recipe

C2_RejectedBrewChangesStateOnly == [][C2_RejectedBrewStep]_vars

\* a brew rejected while the machine is dirty, cleaned before, with cleaning scheduled
C2_Witness ==
    /\ op = "brew"
    /\ result \in BrewDecision \ {"OK"}
    /\ state = result
    /\ dirty_count > 0
    /\ cleaning_scheduled
    /\ last_cleaned_ts # None

\* water 150 of 500, beans 50 of 500, espresso (30, 8), the policies of run.py,
\* never cleaned: the brew is accepted, 120 and 42 are left, the state is IDLE
ScenarioC ==
    LET tank == [maximum_level |-> 500, current_level |-> 150]
        box == [maximum_grams |-> 500, current_grams |-> 50]
        espresso == [water_ml |-> 30, beans_g |-> 8]
        c == brew_consume(tank, box, espresso)
    IN /\ can_brew([clean_threshold |-> 5, allow_recipe_with_no_requirements |-> FALSE],
                   espresso, tank.current_level, box.current_grams,
                   [dirty_count |-> 0]) = "OK"
       /\ c.result = "None"
       /\ c.water.current_level = 120
       /\ c.beans.current_grams = 42
       /\ brew_state(evaluate([schedule_threshold |-> 3, immediate_threshold |-> 6,
                               max_time_between_cleans |-> 7], 0 + 1, None, 0)) = "IDLE"

\* C3: when brew() returns OK the water level has decreased by recipe.water_ml,
\* the bean level by recipe.beans_g (a resource the recipe does not require is
\* untouched) and dirty_count has increased by 1; e.g. water 150, beans 50,
\* espresso (30, 8) gives water 120, beans 42, dirty_count 1, state IDLE.
C3_AcceptedBrewStep ==
    (op' = "brew" /\ result' = "OK") =>
        /\ water_tank'.current_level = water_tank.current_level - active_recipe.water_ml
        /\ bean_container'.current_grams = bean_container.current_grams - active_recipe.beans_g
        /\ (~requires_water(active_recipe) => water_tank' = water_tank)
        /\ (~requires_beans(active_recipe) => bean_container' = bean_container)
        /\ water_tank'.maximum_level = water_tank.maximum_level
        /\ bean_container'.maximum_grams = bean_container.maximum_grams
        /\ dirty_count' = dirty_count + 1
        /\ active_recipe' = active_recipe

C3_AcceptedBrewConsumesRecipe == []ScenarioC /\ [][C3_AcceptedBrewStep]_vars

\* an accepted brew of a recipe needing different amounts of water and beans
C3_Witness ==
    /\ op = "brew"
    /\ result = "OK"
    /\ requires_water(active_recipe) /\ requires_beans(active_recipe)
    /\ active_recipe.water_ml # active_recipe.beans_g
    /\ water_tank.current_level = water_tank.maximum_level - active_recipe.water_ml
    /\ dirty_count > 1

\* C9: for a recipe requiring water and beans, with both levels insufficient,
\* the decision is OUT_OF_WATER, never OUT_OF_BEANS, whichever resource is
\* scarcer and whatever dirty_count is, and brew() leaves the machine in state
\* OUT_OF_WATER.
C9_BothShortStep ==
    (/\ op' = "brew"
     /\ active_recipe # NoRecipe
     /\ requires_water(active_recipe) /\ requires_beans(active_recipe)
     /\ water_tank.current_level < active_recipe.water_ml
     /\ bean_container.current_grams < active_recipe.beans_g) =>
        /\ Decision = "OUT_OF_WATER"
        /\ result' = "OUT_OF_WATER"
        /\ state' = "OUT_OF_WATER"

C9_WaterReportedBeforeBeans == [][C9_BothShortStep]_vars

\* a brew rejected with the beans scarcer than the water and the machine due
\* for cleaning (a rejected brew leaves the levels it was decided on)
C9_Witness ==
    /\ op = "brew"
    /\ result = "OUT_OF_WATER"
    /\ state = "OUT_OF_WATER"
    /\ requires_water(active_recipe) /\ requires_beans(active_recipe)
    /\ water_tank.current_level < active_recipe.water_ml
    /\ bean_container.current_grams < active_recipe.beans_g
    /\ active_recipe.beans_g - bean_container.current_grams
           > active_recipe.water_ml - water_tank.current_level
    /\ dirty_count >= brew_policy.clean_threshold

-----------------------------------------------------------------------------
(* Properties of the cleaning policy and the refill policies                 *)
(* (SpecCleaningRefill)                                                      *)

EvaluateCalled == op = "evaluate"

\* the time-based rule applies to the recorded call of evaluate
TimeRuleFires ==
    /\ cleaning_policy.max_time_between_cleans # None
    /\ arg.last_cleaned_ts # None
    /\ now - arg.last_cleaned_ts >= cleaning_policy.max_time_between_cleans

\* C11 as stated: for every validly constructed policy whose time-based rule
\* does not fire, evaluate with dirty_count = schedule_threshold returns
\* SCHEDULE. Refuted by a policy with schedule_threshold = immediate_threshold.
C11_ScheduleAtScheduleThreshold ==
    (/\ EvaluateCalled
     /\ ~TimeRuleFires
     /\ arg.dirty_count = cleaning_policy.schedule_threshold) =>
        result = "SCHEDULE"

\* C11 amended: when the time-based rule does not fire, evaluate with
\* dirty_count = schedule_threshold never returns NO_ACTION; it returns
\* SCHEDULE when schedule_threshold < immediate_threshold and IMMEDIATE when
\* the two thresholds are equal.
C11_AtScheduleThresholdNeverNoAction ==
    (/\ EvaluateCalled
     /\ ~TimeRuleFires
     /\ arg.dirty_count = cleaning_policy.schedule_threshold) =>
        /\ result # "NO_ACTION"
        /\ cleaning_policy.schedule_threshold < cleaning_policy.immediate_threshold
               => result = "SCHEDULE"
        /\ cleaning_policy.schedule_threshold = cleaning_policy.immediate_threshold
               => result = "IMMEDIATE"

\* a call at the schedule threshold of a policy with two distinct positive thresholds
C11_Witness ==
    /\ EvaluateCalled
    /\ ~TimeRuleFires
    /\ cleaning_policy.schedule_threshold > 0
    /\ cleaning_policy.schedule_threshold < cleaning_policy.immediate_threshold
    /\ arg.dirty_count = cleaning_policy.schedule_threshold
    /\ result = "SCHEDULE"

\* C12: evaluate returns IMMEDIATE for every dirty_count >= immediate_threshold,
\* whether or not the time-based rule fires; when it does not fire, evaluate
\* returns NO_ACTION for dirty_count < schedule_threshold and SCHEDULE for
\* schedule_threshold <= dirty_count < immediate_threshold.
C12_CountRule ==
    EvaluateCalled =>
        /\ arg.dirty_count >= cleaning_policy.immediate_threshold
               => result = "IMMEDIATE"
        /\ (~TimeRuleFires /\ arg.dirty_count < cleaning_policy.schedule_threshold)
               => result = "NO_ACTION"
        /\ (/\ ~TimeRuleFires
            /\ cleaning_policy.schedule_threshold <= arg.dirty_count
            /\ arg.dirty_count < cleaning_policy.immediate_threshold)
               => result = "SCHEDULE"

\* a call exactly at the immediate threshold, above the schedule threshold,
\* with nothing known about the last cleaning
C12_Witness ==
    /\ EvaluateCalled
    /\ arg.last_cleaned_ts = None
    /\ cleaning_policy.schedule_threshold < cleaning_policy.immediate_threshold
    /\ arg.dirty_count = cleaning_policy.immediate_threshold
    /\ result = "IMMEDIATE"

\* C13: when max_time_between_cleans is configured, last_cleaned_ts is known
\* and the time passed since then is at least max_time_between_cleans,
\* evaluate returns IMMEDIATE for every dirty_count.
C13_TimeRuleDominates ==
    (EvaluateCalled /\ TimeRuleFires) => result = "IMMEDIATE"

\* exactly max_time_between_cleans has passed and the count is 0, below the
\* schedule threshold
C13_Witness ==
    /\ EvaluateCalled
    /\ TimeRuleFires
    /\ now - arg.last_cleaned_ts = cleaning_policy.max_time_between_cleans
    /\ arg.dirty_count = 0
    /\ cleaning_policy.schedule_threshold > 0
    /\ result = "IMMEDIATE"

StrictCalled == op = "StrictRefillPolicy.on_refill"

\* C19: for a refill amount > 0 StrictRefillPolicy.on_refill returns
\* (current, OVERFLOW_ERROR) when current + amount > maximum, (maximum,
\* NOW_FULL) when current + amount = maximum and (current + amount,
\* STILL_NOT_FULL) otherwise; on_refill(180, 50, 200) is (180, OVERFLOW_ERROR).
C19_StrictRefill ==
    /\ StrictRefillPolicy_on_refill(180, 50, 200) =
           [new_level |-> 180, result |-> "OVERFLOW_ERROR"]
    /\ (StrictCalled /\ arg.refill_amount > 0) =>
           LET new == arg.current_level + arg.refill_amount
           IN /\ new > arg.maximum =>
                     before = arg.current_level /\ result = "OVERFLOW_ERROR"
              /\ new = arg.maximum =>
                     before = arg.maximum /\ result = "NOW_FULL"
              /\ new < arg.maximum =>
                     before = new /\ result = "STILL_NOT_FULL"

\* a strict refill that would overflow a partly filled container
C19_Witness ==
    /\ StrictCalled
    /\ arg.current_level > 0
    /\ arg.current_level < arg.maximum
    /\ arg.current_level + arg.refill_amount > arg.maximum
    /\ before = arg.current_level
    /\ result = "OVERFLOW_ERROR"

CapCalled == op = "CapRefillPolicy.on_refill"

\* C20: for every container state 0 <= current <= maximum and every amount,
\* WaterTank.refill and BeanContainer.refill end at the level and return the
\* status of the name that CapRefillPolicy.on_refill(current, amount, maximum)
\* returns, and each of the three raises its error exactly for amounts <= 0,
\* the containers keeping their level then.
C20_CapRefillIsContainerRefill ==
    (CapCalled /\ arg.current_level <= arg.maximum) =>
        LET tank == [maximum_level |-> arg.maximum, current_level |-> arg.current_level]
            box == [maximum_grams |-> arg.maximum, current_grams |-> arg.current_level]
            t == WaterTank_refill(tank, arg.refill_amount)
            b == BeanContainer_refill(box, arg.refill_amount)
        IN /\ result = "ValueError" <=> arg.refill_amount <= 0
           /\ t.result = "InvalidWaterOperationError" <=> arg.refill_amount <= 0
           /\ b.result = "InvalidBeanOperationError" <=> arg.refill_amount <= 0
           /\ arg.refill_amount <= 0 => t.obj = tank /\ b.obj = box
           /\ arg.refill_amount > 0 =>
                  /\ result \in {"NOW_FULL", "STILL_NOT_FULL"}
                  /\ t.result = result
                  /\ b.result = result
                  /\ t.obj.current_level = before
                  /\ b.obj.current_grams = before
                  /\ t.obj.maximum_level = arg.maximum
                  /\ b.obj.maximum_grams = arg.maximum

\* a refill that fills a partly filled container exactly to its capacity
C20_Witness ==
    /\ CapCalled
    /\ arg.current_level > 0
    /\ arg.current_level + arg.refill_amount = arg.maximum
    /\ before = arg.maximum
    /\ result = "NOW_FULL"

-----------------------------------------------------------------------------
(* Properties of the machine with a running clock (SpecTimed)                *)

\* a step of brew(): Tick changes the clock, every other call writes its own
\* name to op
BrewStep == op' = "brew" /\ now' = now

\* C14: a brew() whose policy decision is OK returns OK; it counts the brew and
\* the cleaning policy's action for the incremented dirty_count decides the
\* rest: IMMEDIATE gives state NEEDS_CLEANING with cleaning_scheduled as it
\* was, SCHEDULE gives IDLE with cleaning_scheduled true, NO_ACTION gives IDLE
\* with cleaning_scheduled as it was.
C14_AcceptedBrewStateStep ==
    /\ (BrewStep /\ active_recipe # NoRecipe /\ Decision = "OK") => result' = "OK"
    /\ (BrewStep /\ result' = "OK") =>
           LET cleaning_action ==
                   evaluate(cleaning_policy, dirty_count + 1, last_cleaned_ts, now)
           IN /\ dirty_count' = dirty_count + 1
              /\ cleaning_action = "IMMEDIATE" =>
                     state' = "NEEDS_CLEANING" /\ cleaning_scheduled' = cleaning_scheduled
              /\ cleaning_action = "SCHEDULE" =>
                     state' = "IDLE" /\ cleaning_scheduled' = TRUE
              /\ cleaning_action = "NO_ACTION" =>
                     state' = "IDLE" /\ cleaning_scheduled' = cleaning_scheduled

\* C14, with the part on the values of state: state is never the string OK.
C14_StateFollowsCleaningAction ==
    [](state # "OK") /\ [][C14_AcceptedBrewStateStep]_vars

\* a brew that returned OK and left NEEDS_CLEANING because of the time since
\* the last cleaning, the count still below both thresholds, nothing scheduled
C14_Witness ==
    /\ op = "brew"
    /\ result = "OK"
    /\ state = "NEEDS_CLEANING"
    /\ dirty_count < cleaning_policy.schedule_threshold
    /\ last_cleaned_ts # None
    /\ ~cleaning_scheduled

CleanStep == op' = "clean" /\ now' = now

\* C16: clean() can be called in every reachable state; it sets dirty_count
\* to 0, cleaning_scheduled to false, state to IDLE and last_cleaned_ts to the
\* current time, and leaves both containers and active_recipe as they were.
C16_CleanStepEffect ==
    CleanStep =>
        /\ result' = "None"
        /\ dirty_count' = 0
        /\ cleaning_scheduled' = FALSE
        /\ state' = "IDLE"
        /\ last_cleaned_ts' = now
        /\ water_tank' = water_tank
        /\ bean_container' = bean_container
        /\ active_recipe' = active_recipe

C16_CleanResets == [](ENABLED clean) /\ [][C16_CleanStepEffect]_vars

\* a second cleaning, later than the first, of a machine with a recipe and
\* with part of the water used
C16_Witness ==
    /\ op = "clean"
    /\ last_cleaned_ts = now
    /\ now > 0
    /\ dirty_count = 0
    /\ ~cleaning_scheduled
    /\ state = "IDLE"
    /\ active_recipe # NoRecipe
    /\ water_tank.current_level < water_tank.maximum_level

-----------------------------------------------------------------------------
(* Further properties of the machine (Spec)                                  *)

\* C15: brew() while no recipe was ever selected raises RuntimeError and
\* leaves state, both containers, dirty_count, cleaning_scheduled,
\* last_cleaned_ts and active_recipe as they were; a selected recipe is never
\* unset, and with a recipe brew() does not raise RuntimeError.
C15_NoRecipeStep ==
    /\ (op' = "brew" /\ active_recipe = NoRecipe) =>
           /\ result' = "RuntimeError"
           /\ state' = state
           /\ water_tank' = water_tank
           /\ bean_container' = bean_container
           /\ dirty_count' = dirty_count
           /\ cleaning_scheduled' = cleaning_scheduled
           /\ last_cleaned_ts' = last_cleaned_ts
           /\ active_recipe' = active_recipe
    /\ active_recipe # NoRecipe =>
           /\ active_recipe' # NoRecipe
           /\ op' = "brew" => result' # "RuntimeError"

C15_NoRecipeBrewFails == [][C15_NoRecipeStep]_vars

\* a failed brew of a machine that was cleaned and has a cleaning scheduled
C15_Witness ==
    /\ op = "brew"
    /\ result = "RuntimeError"
    /\ active_recipe = NoRecipe
    /\ state = "IDLE"
    /\ cleaning_scheduled
    /\ last_cleaned_ts # None

OtherCalls == {"select_recipe", "schedule_cleaning", "refill_water", "refill_beans"}

\* C17: dirty_count grows by 1 on a brew() that returns OK and on no other
\* brew(), clean() sets it to 0, and select_recipe, schedule_cleaning,
\* refill_water and refill_beans leave it as it was, whether they fail or not;
\* dirty_count is never negative.
C17_DirtyCountStep ==
    /\ (op' = "brew" /\ result' = "OK") => dirty_count' = dirty_count + 1
    /\ (op' = "brew" /\ result' # "OK") => dirty_count' = dirty_count
    /\ op' = "clean" => dirty_count' = 0
    /\ op' \in OtherCalls => dirty_count' = dirty_count

C17_DirtyCountCountsBrews == [](dirty_count >= 0) /\ [][C17_DirtyCountStep]_vars

\* the second accepted brew after a cleaning
C17_Witness ==
    /\ op = "brew"
    /\ result = "OK"
    /\ dirty_count = 2
    /\ last_cleaned_ts # None

\* C18: only brew() and clean() write state: select_recipe, schedule_cleaning,
\* refill_water and refill_beans leave it as it was, so a refill after
\* OUT_OF_WATER leaves OUT_OF_WATER; schedule_cleaning sets cleaning_scheduled
\* to true.
C18_StateStep ==
    /\ op' \in OtherCalls => state' = state
    /\ state' # state => op' \in {"brew", "clean"}
    /\ op' = "schedule_cleaning" => cleaning_scheduled' = TRUE

C18_StateWrittenByBrewAndClean == [][C18_StateStep]_vars

\* water was added after a brew rejected for water, and the state still says so
C18_Witness ==
    /\ op = "refill_water"
    /\ result \in {"NOW_FULL", "STILL_NOT_FULL"}
    /\ water_tank.current_level > 0
    /\ state = "OUT_OF_WATER"

-----------------------------------------------------------------------------
(* Properties of the machine with either refill policy (SpecInjected)        *)

\* C21: whatever refill policy the machine was constructed with, refill_water
\* and refill_beans end at the level and return the result of
\* CapRefillPolicy.on_refill (the container's error for an amount <= 0), keep
\* the capacity and touch nothing else of the machine, and refill_policy is
\* never written; so two machines that differ in the refill policy only make
\* the same step in every state, and no result is ever OVERFLOW_ERROR.
C21_RefillStep ==
    /\ refill_policy' = refill_policy
    /\ op' = "refill_water" =>
           LET r == CapRefillPolicy_on_refill(water_tank.current_level, arg',
                                              water_tank.maximum_level)
           IN /\ IF arg' <= 0
                 THEN water_tank' = water_tank /\ result' = "InvalidWaterOperationError"
                 ELSE /\ water_tank'.current_level = r.new_level
                      /\ water_tank'.maximum_level = water_tank.maximum_level
                      /\ result' = r.result
              /\ bean_container' = bean_container
              /\ machine_vars' = machine_vars
    /\ op' = "refill_beans" =>
           LET r == CapRefillPolicy_on_refill(bean_container.current_grams, arg',
                                              bean_container.maximum_grams)
           IN /\ IF arg' <= 0
                 THEN bean_container' = bean_container
                      /\ result' = "InvalidBeanOperationError"
                 ELSE /\ bean_container'.current_grams = r.new_level
                      /\ bean_container'.maximum_grams = bean_container.maximum_grams
                      /\ result' = r.result
              /\ water_tank' = water_tank
              /\ machine_vars' = machine_vars

C21_MachineRefillAlwaysCaps ==
    [](result # "OVERFLOW_ERROR") /\ [][C21_RefillStep]_vars

\* a machine constructed with StrictRefillPolicy was refilled with more water
\* than its tank holds: the tank is full and the call returned NOW_FULL
C21_Witness ==
    /\ refill_policy = "StrictRefillPolicy"
    /\ op = "refill_water"
    /\ arg > water_tank.maximum_level
    /\ water_tank.current_level = water_tank.maximum_level
    /\ result = "NOW_FULL"

-----------------------------------------------------------------------------
(* Properties of the machine with shared policy objects (SpecShared)         *)

\* a call the second machine makes on the shared policy objects
OtherMachineStep == op' \in {"can_brew", "evaluate"}

\* C22: the policy objects are never written, so they are always the private
\* instances of their configuration; a call of the second machine on the
\* shared objects leaves this machine's state, recipe, levels, dirty_count,
\* cleaning_scheduled and last_cleaned_ts as they were, and with them the
\* decision of its next brew() and the cleaning action that brew would get.
C22_SharedStep ==
    /\ policy_vars' = policy_vars
    /\ OtherMachineStep =>
           /\ machine_vars' = machine_vars
           /\ water_tank' = water_tank
           /\ bean_container' = bean_container
           /\ active_recipe # NoRecipe => Decision' = Decision
           /\ evaluate(cleaning_policy', dirty_count' + 1, last_cleaned_ts', now') =
                  evaluate(cleaning_policy, dirty_count + 1, last_cleaned_ts, now)

C22_PoliciesSafeToShare == [][C22_SharedStep]_vars

\* the second machine, dirty, was just refused by the shared brew policy
\* while this machine, brewed once, would still be allowed to brew
C22_Witness ==
    /\ op = "can_brew"
    /\ result = "NEEDS_CLEANING"
    /\ active_recipe # NoRecipe
    /\ dirty_count > 0
    /\ Decision = "OK"

-----------------------------------------------------------------------------
(* Properties of the constructors (SpecRecipe, SpecConstruct)                *)

RecipeConstructed == op = "CoffeeRecipe"

\* the name is a str that is not empty once blanks at both ends are removed
NameNotBlank ==
    /\ arg.name.type = "str"
    /\ \E i \in 1..Len(arg.name.value) : arg.name.value[i] # " "

\* C23: CoffeeRecipe(name, water_ml, beans_g, grind) succeeds exactly when
\* the name is a non-blank str, water_ml is an int in 0..2000, beans_g is an
\* int in 0..500 and grind is None or a member of CoffeeRecipeGrindLevel; the
\* recipe then has the amounts passed; every other call raises
\* InvalidRecipeError and gives no recipe.
C23_RecipeValidation ==
    RecipeConstructed =>
        LET valid ==
                /\ NameNotBlank
                /\ arg.water_ml.type \in {"int", "bool"}
                /\ 0 <= arg.water_ml.value /\ arg.water_ml.value <= 2000
                /\ arg.beans_g.type \in {"int", "bool"}
                /\ 0 <= arg.beans_g.value /\ arg.beans_g.value <= 500
                /\ \/ arg.grind.type = "NoneType"
                   \/ /\ arg.grind.type = "CoffeeRecipeGrindLevel"
                      /\ arg.grind.value \in {"FINE", "MEDIUM", "COARSE"}
        IN /\ valid =>
                  /\ result = "None"
                  /\ active_recipe = [water_ml |-> arg.water_ml.value,
                                      beans_g |-> arg.beans_g.value]
           /\ ~valid =>
                  /\ result = "InvalidRecipeError"
                  /\ active_recipe = NoRecipe

\* a recipe named " a" with water_ml = 2000, beans_g = 500 and a grind level
C23_Witness ==
    /\ RecipeConstructed
    /\ arg.name.type = "str"
    /\ Len(arg.name.value) = 2
    /\ arg.name.value[1] = " "
    /\ arg.grind.type = "CoffeeRecipeGrindLevel"
    /\ result = "None"
    /\ active_recipe = [water_ml |-> 2000, beans_g |-> 500]

ContainerConstructed == op \in {"WaterTank", "BeanContainer"}

\* C24: WaterTank(maximum, initial) and BeanContainer(maximum, initial)
\* succeed exactly when maximum > 0 and 0 <= initial <= maximum, and the
\* container then has that capacity and level = initial; every other call
\* raises the class's config error and gives no container.  The containers
\* of the other specifications are the ones a constructor can return.
C24_ContainerValidation ==
    /\ WaterTanks =
           { WaterTank_init(m, i).obj : m \in -1..MaxLevel, i \in -1..MaxLevel } \ {NoTank}
    /\ BeanContainers =
           { BeanContainer_init(m, i).obj : m \in -1..MaxLevel, i \in -1..MaxLevel } \ {NoBox}
    /\ ContainerConstructed =>
           LET valid == arg.maximum > 0 /\ 0 <= arg.initial /\ arg.initial <= arg.maximum
           IN /\ (op = "WaterTank" /\ valid) =>
                     /\ result = "None"
                     /\ water_tank = [maximum_level |-> arg.maximum,
                                      current_level |-> arg.initial]
              /\ (op = "WaterTank" /\ ~valid) =>
                     /\ result = "InvalidWaterTankConfigError"
                     /\ water_tank = NoTank
              /\ (op = "BeanContainer" /\ valid) =>
                     /\ result = "None"
                     /\ bean_container = [maximum_grams |-> arg.maximum,
                                          current_grams |-> arg.initial]
              /\ (op = "BeanContainer" /\ ~valid) =>
                     /\ result = "InvalidBeanContainerConfigError"
                     /\ bean_container = NoBox

\* a tank constructed full, next to a bean container constructed empty
C24_Witness ==
    /\ op = "WaterTank"
    /\ result = "None"
    /\ arg.initial = arg.maximum
    /\ water_tank.current_level = water_tank.maximum_level
    /\ bean_container.maximum_grams > 0
    /\ bean_container.current_grams = 0

-----------------------------------------------------------------------------
(* Further properties of the containers (SpecContainers)                     *)

\* C25: in every reachable state of either container missing_capacity is
\* maximum - current, is_empty() holds iff the level is 0, is_full() holds iff
\* the level is the maximum iff missing_capacity is 0; and a refill that
\* succeeded returned NOW_FULL exactly when is_full() holds after it.
C25_QueriesFollowLevel ==
    /\ WaterTank_missing_capacity(water_tank) =
           water_tank.maximum_level - water_tank.current_level
    /\ WaterTank_is_empty(water_tank) <=> water_tank.current_level = 0
    /\ WaterTank_is_full(water_tank) <=>
           water_tank.current_level = water_tank.maximum_level
    /\ WaterTank_is_full(water_tank) <=> WaterTank_missing_capacity(water_tank) = 0
    /\ BeanContainer_missing_capacity(bean_container) =
           bean_container.maximum_grams - bean_container.current_grams
    /\ BeanContainer_is_empty(bean_container) <=> bean_container.current_grams = 0
    /\ BeanContainer_is_full(bean_container) <=>
           bean_container.current_grams = bean_container.maximum_grams
    /\ BeanContainer_is_full(bean_container) <=>
           BeanContainer_missing_capacity(bean_container) = 0
    /\ (op = "WaterTank.refill" /\ result \in {"NOW_FULL", "STILL_NOT_FULL"}) =>
           (result = "NOW_FULL" <=> WaterTank_is_full(water_tank))
    /\ (op = "BeanContainer.refill" /\ result \in {"NOW_FULL", "STILL_NOT_FULL"}) =>
           (result = "NOW_FULL" <=> BeanContainer_is_full(bean_container))

\* a refill that brought an empty tank exactly to its capacity
C25_Witness ==
    /\ op = "WaterTank.refill"
    /\ before = 0
    /\ arg = water_tank.maximum_level
    /\ result = "NOW_FULL"
    /\ WaterTank_is_full(water_tank)
    /\ ~WaterTank_is_empty(water_tank)
    /\ WaterTank_missing_capacity(water_tank) = 0

-----------------------------------------------------------------------------
(* Properties of brewing and cleaning (Spec)                                 *)

\* what brew() returns or raises when no container call fails
BrewOutcomes == BrewDecision \cup {"RuntimeError"}

\* C26: brew() never raises an error of a container: it returns a decision
\* (or raises RuntimeError for the missing recipe), and a brew() that changed
\* a level returned OK and took the recipe's water and the recipe's beans, so
\* no brew takes the water without the beans.
C26_BrewStep ==
    op' = "brew" =>
        /\ result' \in BrewOutcomes
        /\ (water_tank' # water_tank \/ bean_container' # bean_container) =>
               /\ result' = "OK"
               /\ water_tank'.current_level =
                      water_tank.current_level - active_recipe.water_ml
               /\ bean_container'.current_grams =
                      bean_container.current_grams - active_recipe.beans_g

C26_NoPartialBrew ==
    [](op = "brew" => result \in BrewOutcomes) /\ [][C26_BrewStep]_vars

\* an accepted brew that took the last water and the last beans
C26_Witness ==
    /\ op = "brew"
    /\ result = "OK"
    /\ requires_water(active_recipe) /\ requires_beans(active_recipe)
    /\ water_tank.current_level = 0
    /\ bean_container.current_grams = 0

\* C27 as stated: right after a brew() that returned OK and left the state
\* NEEDS_CLEANING (the cleaning policy answered IMMEDIATE), a further brew()
\* does not return OK.  Refuted when immediate_threshold < clean_threshold.
C27_NextBrewStep ==
    (/\ op = "brew" /\ result = "OK" /\ state = "NEEDS_CLEANING"
     /\ op' = "brew") =>
        result' # "OK"

C27_ImmediateBlocksNextBrew == [][C27_NextBrewStep]_vars

\* C28: with allow_recipe_with_no_requirements = false, 0 <= dirty_count <=
\* clean_threshold in every reachable state, and with clean_threshold = 0 no
\* brew() returns OK.
C28_DirtyCountWithinThreshold ==
    ~brew_policy.allow_recipe_with_no_requirements =>
        /\ 0 <= dirty_count
        /\ dirty_count <= brew_policy.clean_threshold
        /\ brew_policy.clean_threshold = 0 => ~(op = "brew" /\ result = "OK")

\* the counter has reached a positive clean_threshold and a brew was refused
\* for it
C28_Witness ==
    /\ ~brew_policy.allow_recipe_with_no_requirements
    /\ brew_policy.clean_threshold > 0
    /\ dirty_count = brew_policy.clean_threshold
    /\ op = "brew"
    /\ result = "NEEDS_CLEANING"

\* the smaller of the two thresholds that can make the machine report
\* NEEDS_CLEANING when no max_time_between_cleans is configured
C29_Threshold == Min(brew_policy.clean_threshold, cleaning_policy.immediate_threshold)

C29_Reached == dirty_count >= C29_Threshold

C29_Step ==
    /\ (C29_Reached /\ op' # "clean") => C29_Reached'
    /\ (state = "NEEDS_CLEANING" /\ op' \notin {"brew", "clean"}) =>
           state' = "NEEDS_CLEANING"

C30_BrewsUntilCleaning ==
    IF brew_policy.clean_threshold > dirty_count
    THEN brew_policy.clean_threshold - dirty_count
    ELSE 0

\* min(max(clean_threshold - d, 0), floor(W / w) if w > 0, floor(B / b) if b > 0)
\* for the active recipe (w, b) and the current levels W, B and counter d
C30_Remaining ==
    LET by_water == IF requires_water(active_recipe)
                    THEN Min(C30_BrewsUntilCleaning,
                             water_tank.current_level \div active_recipe.water_ml)
                    ELSE C30_BrewsUntilCleaning
    IN IF requires_beans(active_recipe)
       THEN Min(by_water, bean_container.current_grams \div active_recipe.beans_g)
       ELSE by_water

C30_FixedRecipe ==
    /\ active_recipe # NoRecipe
    /\ requires_water(active_recipe) \/ requires_beans(active_recipe)

\* a brew() with brews remaining returns OK and leaves one fewer; a brew()
\* with none remaining returns a decision other than OK and leaves none;
\* schedule_cleaning() leaves the number as it is
C30_Step ==
    C30_FixedRecipe =>
        /\ (op' = "brew" /\ C30_Remaining > 0) =>
               (result' = "OK" /\ C30_Remaining' = C30_Remaining - 1)
        /\ (op' = "brew" /\ C30_Remaining = 0) =>
               (result' \in BrewDecision \ {"OK"} /\ C30_Remaining' = 0)
        /\ op' = "schedule_cleaning" => C30_Remaining' = C30_Remaining

C31_Recoverable ==
    /\ active_recipe # NoRecipe
    /\ requires_water(active_recipe) \/ requires_beans(active_recipe)
    /\ active_recipe.water_ml <= water_tank.maximum_level
    /\ active_recipe.beans_g <= bean_container.maximum_grams
    /\ brew_policy.clean_threshold >= 1

\* what holds after clean(), after the refill_water(maximum) that follows
\* it, and after the refill_beans(maximum) that follows that
C31_Cleaned == dirty_count = 0

C31_WaterFilled == C31_Cleaned /\ WaterTank_is_full(water_tank)

C31_BeansFilled == C31_WaterFilled /\ BeanContainer_is_full(bean_container)

C31_Step ==
    /\ op' = "clean" => C31_Cleaned'
    /\ (C31_Cleaned /\ op' = "refill_water" /\ arg' = water_tank.maximum_level) =>
           C31_WaterFilled'
    /\ (C31_WaterFilled /\ op' = "refill_beans"
                        /\ arg' = bean_container.maximum_grams) =>
           C31_BeansFilled'
    /\ (C31_BeansFilled /\ C31_Recoverable /\ op' = "brew") => result' = "OK"

\* C31: from every reachable state the sequence clean(), refill_water(water
\* maximum), refill_beans(bean maximum), brew() ends with brew() returning
\* OK, provided the active recipe requires a resource, fits the containers
\* and clean_threshold >= 1.  Each call of the sequence is a step that is
\* always possible, and each establishes what the next one needs.
C31_AlwaysRecoverable ==
    /\ [](ENABLED clean)
    /\ [](\E amount \in RefillAmounts :
              amount = water_tank.maximum_level /\ ENABLED refill_water(amount))
    /\ [](\E amount \in RefillAmounts :
              amount = bean_container.maximum_grams /\ ENABLED refill_beans(amount))
    /\ [](C31_BeansFilled => ENABLED brew)
    /\ [][C31_Step]_vars

\* the brew that ends the sequence: accepted with the counter at 1 and both
\* containers one recipe below full, under clean_threshold 1
C31_Witness ==
    /\ C31_Recoverable
    /\ op = "brew" /\ result = "OK"
    /\ dirty_count = 1
    /\ brew_policy.clean_threshold = 1
    /\ requires_water(active_recipe) /\ requires_beans(active_recipe)
    /\ water_tank.current_level = water_tank.maximum_level - active_recipe.water_ml
    /\ bean_container.current_grams =
           bean_container.maximum_grams - active_recipe.beans_g

\* max_time_between_cleans has elapsed since the last clean()
C32_Elapsed ==
    /\ cleaning_policy.max_time_between_cleans # None
    /\ last_cleaned_ts # None
    /\ now - last_cleaned_ts >= cleaning_policy.max_time_between_cleans

C32_Step ==
    /\ (last_cleaned_ts = None /\ ~CleanStep) => last_cleaned_ts' = None
    /\ (BrewStep /\ result' = "OK" /\ last_cleaned_ts = None) =>
           /\ state' = IF dirty_count' >= cleaning_policy.immediate_threshold
                       THEN "NEEDS_CLEANING" ELSE "IDLE"
           /\ cleaning_scheduled' =
                  IF /\ dirty_count' >= cleaning_policy.schedule_threshold
                     /\ dirty_count' < cleaning_policy.immediate_threshold
                  THEN TRUE ELSE cleaning_scheduled
    /\ (BrewStep /\ result' = "OK" /\ C32_Elapsed) => state' = "NEEDS_CLEANING"

\* C32: last_cleaned_ts is unset from construction until the first clean();
\* while it is unset the state after a successful brew depends only on
\* dirty_count against schedule_threshold and immediate_threshold, however
\* much time has passed; after a clean(), a successful brew made once
\* max_time_between_cleans has elapsed leaves NEEDS_CLEANING whatever the count.
C32_TimeRuleNeedsAClean ==
    /\ [](op = "init" => last_cleaned_ts = None)
    /\ [][C32_Step]_vars

\* a successful brew of a machine never cleaned, made when the configured
\* max_time_between_cleans has long passed since construction: the machine
\* is IDLE
C32_Witness ==
    /\ op = "brew" /\ result = "OK"
    /\ last_cleaned_ts = None
    /\ cleaning_policy.max_time_between_cleans # None
    /\ now >= cleaning_policy.max_time_between_cleans
    /\ dirty_count < cleaning_policy.immediate_threshold
    /\ state = "IDLE"

\* the brew that raises the flag: accepted, with the new count from
\* schedule_threshold up to but not including immediate_threshold and the
\* time rule silent
C33_SchedulingBrew ==
    /\ BrewStep /\ result' = "OK"
    /\ dirty_count' >= cleaning_policy.schedule_threshold
    /\ dirty_count' < cleaning_policy.immediate_threshold
    /\ ~C32_Elapsed

C33_Step ==
    /\ (cleaning_scheduled /\ ~CleanStep) => cleaning_scheduled'
    /\ CleanStep => ~cleaning_scheduled'
    /\ (~cleaning_scheduled /\ cleaning_scheduled') =>
           (op' = "schedule_cleaning" \/ C33_SchedulingBrew)
    /\ C33_SchedulingBrew => cleaning_scheduled'
    /\ (op' = "schedule_cleaning" /\ now' = now) => cleaning_scheduled'

\* C33: cleaning_scheduled is false initially, is set by a brew whose
\* cleaning action was SCHEDULE and by schedule_cleaning(), stays true through
\* every later brew, refill and select_recipe, and becomes false only by clean().
C33_CleaningScheduledSticky ==
    /\ [](op = "init" => ~cleaning_scheduled)
    /\ [][C33_Step]_vars

\* the flag has survived an accepted brew that ended in NEEDS_CLEANING
C33_Witness ==
    /\ cleaning_scheduled
    /\ op = "brew" /\ result = "OK"
    /\ state = "NEEDS_CLEANING"

\* the positive amounts of the composition
C34_Amounts == 1..MaxAmount

\* two refills of one container in either order and the single refill of the
\* sum give the same container and the same (final) status
C34_WaterComposes(tank) ==
    \A a, b \in C34_Amounts :
        LET ab == WaterTank_refill(WaterTank_refill(tank, a).obj, b)
            ba == WaterTank_refill(WaterTank_refill(tank, b).obj, a)
        IN ab = ba /\ ab = WaterTank_refill(tank, a + b)

C34_BeansCompose(box) ==
    \A a, b \in C34_Amounts :
        LET ab == BeanContainer_refill(BeanContainer_refill(box, a).obj, b)
            ba == BeanContainer_refill(BeanContainer_refill(box, b).obj, a)
        IN ab = ba /\ ab = BeanContainer_refill(box, a + b)

\* on a full tank a refill followed by a consume of no more than the refill
\* ends below a consume followed by the refill: the first refill was capped
C34_RefillConsumeDiffer(tank) ==
    WaterTank_is_full(tank) =>
        \A a \in C34_Amounts : \A c \in 1..a :
            c <= tank.maximum_level =>
                consume_water(WaterTank_refill(tank, a).obj, c).obj.current_level <
                WaterTank_refill(consume_water(tank, c).obj, a).obj.current_level

\* a second refill call right after a first: the container and the status it
\* leaves are those of one refill of the sum from the level before the first
C34_Step ==
    /\ (/\ op = "WaterTank.refill" /\ arg > 0
        /\ op' = "WaterTank.refill" /\ arg' > 0) =>
           LET tank == [water_tank EXCEPT !.current_level = before]
               once == WaterTank_refill(tank, arg + arg')
           IN water_tank' = once.obj /\ result' = once.result
    /\ (/\ op = "BeanContainer.refill" /\ arg > 0
        /\ op' = "BeanContainer.refill" /\ arg' > 0) =>
           LET box == [bean_container EXCEPT !.current_grams = before]
               once == BeanContainer_refill(box, arg + arg')
           IN bean_container' = once.obj /\ result' = once.result

\* C34: for every container state and amounts a, b > 0, refill(a) then
\* refill(b) leaves the same level and the same final status as refill(b)
\* then refill(a) and as a single refill(a + b); refill and consume do not
\* commute in general because of capping.
C34_CappedRefillsCompose ==
    /\ [](C34_WaterComposes(water_tank) /\ C34_BeansCompose(bean_container))
    /\ [](C34_RefillConsumeDiffer(water_tank))
    /\ [][C34_Step]_vars

\* a refill that was capped: it started above empty and below full and the
\* amount did not fit
C34_Witness ==
    /\ op = "WaterTank.refill"
    /\ result = "NOW_FULL"
    /\ before > 0
    /\ before < water_tank.maximum_level
    /\ before + arg > water_tank.maximum_level

\* what a consumption raises when it fails
C35_ConsumptionErrors ==
    {"NotEnoughWaterError", "NotEnoughBeansError",
     "InvalidWaterOperationError", "InvalidBeanOperationError"}

\* a caller about to get a result other than OK finds the levels and the
\* counter as they were when it entered brew()
C35_RejectedMutatesNothing ==
    \A c \in Callers :
        (callers[c].pc = "return" /\ callers[c].returned # "OK") =>
            /\ water_tank.current_level = callers[c].entry.water
            /\ bean_container.current_grams = callers[c].entry.beans
            /\ dirty_count = callers[c].entry.dirty_count

\* a caller about to get OK finds exactly its own brew taken from what it
\* found on entry, as in the sequential machine
C35_AcceptedTakesOneBrew ==
    \A c \in Callers :
        (callers[c].pc = "return" /\ callers[c].returned = "OK") =>
            /\ water_tank.current_level =
                   callers[c].entry.water - active_recipe.water_ml
            /\ bean_container.current_grams =
                   callers[c].entry.beans - active_recipe.beans_g
            /\ dirty_count = callers[c].entry.dirty_count + 1

\* C35: with the whole brew sequence inside one mutual-exclusion section,
\* under every interleaving of concurrent callers a rejected brew mutates
\* nothing, an accepted brew's consumptions never fail, and
\* 0 <= current <= maximum holds for both containers.
C35_MutexKeepsBrewGuarantees ==
    /\ C35_RejectedMutatesNothing
    /\ \A c \in Callers : callers[c].returned \notin C35_ConsumptionErrors
    /\ C35_AcceptedTakesOneBrew
    /\ 0 <= water_tank.current_level
    /\ water_tank.current_level <= water_tank.maximum_level
    /\ 0 <= bean_container.current_grams
    /\ bean_container.current_grams <= bean_container.maximum_grams

\* one caller has had its brew accepted and the other, entering after it,
\* is refused for the water the first one took
C35_Witness ==
    /\ op = "brew" /\ result = "OK"
    /\ \E c \in Callers :
           /\ c # arg
           /\ callers[c].pc = "return"
           /\ callers[c].returned = "OUT_OF_WATER"
           /\ callers[c].entry.dirty_count = 1
           /\ callers[c].entry.water = MaxLevel - active_recipe.water_ml

====
